---- MODULE Spec2Model ----
(***************************************************************************)
(* The knowledge graph of Model_Myself: the KnowledgeGraph class           *)
(* (backend/analysis/graph.py) over a networkx DiGraph, the document-fact  *)
(* adapter (backend/routes/document_analysis.py), the training-answer      *)
(* routes (backend/routes/training.py) and the read API (backend/main.py). *)
(*                                                                         *)
(* Strings whose characters matter (questions, question ids, timestamps)   *)
(* are sequences of one-character strings; a node id is the sequence of    *)
(* the pieces the code concatenates.  A node's or an edge's attributes are *)
(* a function from attribute names to values (a Python dict).              *)
(***************************************************************************)
EXTENDS Integers, Sequences, FiniteSets, TLC

(***************************************************************************)
(* Program constants                                                       *)
(***************************************************************************)
CATEGORIES ==
    << <<"Knowledge">>, <<"Feelings">>, <<"Personalities">>,
       <<"ImportanceOfPeople">>, <<"Preferences">>, <<"Morals">>,
       <<"AutomaticQuestions">> >>

\* The dict literal of graph.py, as its (key, value) items in source order.
TRAINING_CATEGORY_MAP ==
    << <<"Questions about my knowledge", <<"Knowledge">> >>,
       <<"Questions about my feelings and 5 personalities", <<"Personalities">> >>,
       <<"Question about the importance of people in my life", <<"ImportanceOfPeople">> >>,
       <<"Iteratively add to a knowledge graph", <<"Knowledge">> >>,
       <<"Preferences", <<"Preferences">> >>,
       <<"Moral questions", <<"Morals">> >>,
       <<"Automatic questions to extend known knowledge", <<"AutomaticQuestions">> >> >>

\* question[:30]
PrefixLen == 30

Range(s) == {s[i] : i \in DOMAIN s}

CategorySet == Range(CATEGORIES)

(***************************************************************************)
(* Python dicts                                                            *)
(***************************************************************************)
NoAttrs == [k \in {} |-> ""]

\* dict.update: the keys of new overwrite, the others stay.
Update(old, new) == new @@ old

\* d.get(k, default)
Get(d, k, default) == IF k \in DOMAIN d THEN d[k] ELSE default

(***************************************************************************)
(* networkx.DiGraph: _node (insertion-ordered dict of attribute dicts) as  *)
(* order + attr, _adj (per node, the insertion-ordered dict of successors  *)
(* with the edge's attribute dict) as adj + eattr.                         *)
(***************************************************************************)
EmptyGraph ==
    [order |-> <<>>, attr |-> <<>>, adj |-> <<>>, eattr |-> <<>>]

Nodes(G) == Range(G.order)

Edges(G) == DOMAIN G.eattr

HasNode(G, n) == n \in Nodes(G)

\* An add_node that gives a node it meets the new attributes alone
add_node_anew(G, n, attrs) ==
    CHOOSE H \in {IF HasNode(g, n)
                  THEN [g EXCEPT !.attr[n] = attrs]
                  ELSE [g EXCEPT !.order = Append(@, n),
                                 !.attr = (n :> attrs) @@ @,
                                 !.adj = (n :> <<>>) @@ @] : g \in {G}} : TRUE

\* DiGraph.add_node(n, **attrs).  g is G, worked out once.
add_node(G, n, attrs) ==
    CHOOSE H \in {IF HasNode(g, n)
                  THEN [g EXCEPT !.attr[n] = Update(@, attrs)]
                  ELSE [g EXCEPT !.order = Append(@, n),
                                 !.attr = (n :> attrs) @@ @,
                                 !.adj = (n :> <<>>) @@ @] : g \in {G}} : TRUE

\* An add_edge that lists v among the successors of u at every call
add_edge_again(G, u, v, attrs) ==
    LET e == <<u, v>>
        Bare(g, n) == IF HasNode(g, n) THEN g ELSE add_node(g, n, NoAttrs)
        Link(g) == IF e \in Edges(g)
                   THEN [g EXCEPT !.adj[u] = Append(@, v),
                                  !.eattr[e] = Update(@, attrs)]
                   ELSE [g EXCEPT !.adj[u] = Append(@, v),
                                  !.eattr = (e :> attrs) @@ @]
    IN  CHOOSE H \in {Link(G2) : G2 \in {Bare(G1, v) : G1 \in {Bare(g, u) : g \in {G}}}} :
            TRUE

\* DiGraph.add_edge(u, v, **attrs): missing endpoints are created bare.
add_edge(G, u, v, attrs) ==
    LET e == <<u, v>>
        Bare(g, n) == IF HasNode(g, n) THEN g ELSE add_node(g, n, NoAttrs)
        Link(g) == IF e \in Edges(g)
                   THEN [g EXCEPT !.eattr[e] = Update(@, attrs)]
                   ELSE [g EXCEPT !.adj[u] = Append(@, v),
                                  !.eattr = (e :> attrs) @@ @]
    IN  CHOOSE H \in {Link(G2) : G2 \in {Bare(G1, v) : G1 \in {Bare(g, u) : g \in {G}}}} :
            TRUE

Filter(s, Keep(_)) ==
    LET F[i \in 0..Len(s)] ==
            IF i = 0 THEN <<>>
            ELSE IF Keep(s[i]) THEN Append(F[i - 1], s[i]) ELSE F[i - 1]
    IN  F[Len(s)]

Map(s, Op(_)) == [i \in DOMAIN s |-> Op(s[i])]

\* DiGraph.remove_nodes_from(ns): the nodes go, and every edge at them.
remove_nodes_from(G, ns) ==
    LET keep == Nodes(G) \ ns
        Kept(n) == n \in keep
    IN  [order |-> Filter(G.order, Kept),
         attr |-> [x \in keep |-> G.attr[x]],
         adj |-> [x \in keep |-> Filter(G.adj[x], Kept)],
         eattr |-> [e \in {d \in Edges(G) : d[1] \in keep /\ d[2] \in keep} |->
                      G.eattr[e]]]

\* G.nodes(data=True), G.edges(data=True): the iteration order networkx gives.
NodeList(G) == [i \in DOMAIN G.order |-> <<G.order[i], G.attr[G.order[i]]>>]

RECURSIVE Concat(_)
Concat(ss) == IF ss = <<>> THEN <<>> ELSE Head(ss) \o Concat(Tail(ss))

EdgeList(G) ==
    Concat([i \in DOMAIN G.order |->
              LET u == G.order[i]
              IN  [j \in DOMAIN G.adj[u] |->
                      <<u, G.adj[u][j], G.eattr[<<u, G.adj[u][j]>>]>>]])

(***************************************************************************)
(* JSON / Python values.  A str whose characters matter is a sequence of   *)
(* one-character strings; a scalar that is not a str (a JSON number) is    *)
(* the one-piece sequence NotAStr.  An answer is a str or a list of str:   *)
(* [kind, v] with v the str alone or the list's items.                     *)
(***************************************************************************)
NotAStr == <<"<number>">>

IsStr(v) == \A i \in DOMAIN v : Len(v[i]) = 1

Min(a, b) == IF a < b THEN a ELSE b

\* s[:n]
Take(s, n) == SubSeq(s, 1, Min(Len(s), n))

\* s.replace(old, new) for one-character old and new
Replace(s, old, new) == [i \in DOMAIN s |-> IF s[i] = old THEN new ELSE s[i]]

StrAnswer(v) == [kind |-> "str", v |-> <<v>>]

ListAnswer(v) == [kind |-> "list", v |-> v]

\* ", ".join(items)
Join(items) ==
    LET J[i \in 0..Len(items)] ==
            IF i = 0 THEN ""
            ELSE IF i = 1 THEN items[1]
            ELSE J[i - 1] \o ", " \o items[i]
    IN  J[Len(items)]

\* str(answer): a str is itself, a list prints as its repr.
Str(answer) ==
    IF answer.kind = "str" THEN answer.v[1]
    ELSE "[" \o Join([i \in DOMAIN answer.v |-> "'" \o answer.v[i] \o "'"]) \o "]"

(***************************************************************************)
(* KnowledgeGraph (graph.py).  Each method is an operator from the graph   *)
(* before the call to [graph: the graph after it, raised: the exception    *)
(* that leaves the method ("" for none), value: what it returns].          *)
(***************************************************************************)
None == <<>>

Returned(G, v) == [graph |-> G, raised |-> "", value |-> v]

Raised(G, e) == [graph |-> G, raised |-> e, value |-> None]

TrainingSubnode(kg_category) == <<"Training_">> \o kg_category

\* A constructor whose subnode keeps the training_category it got first
KnowledgeGraphInitFirstWins ==
    LET Cats[i \in 0..Len(CATEGORIES)] ==
            IF i = 0 THEN EmptyGraph
            ELSE add_node(Cats[i - 1], CATEGORIES[i], [type |-> "category"])
        Hubs == add_node(add_node(Cats[Len(CATEGORIES)],
                                  <<"Training">>, [type |-> "training_main"]),
                         <<"Documents">>, [type |-> "document_main"])
        Subs[i \in 0..Len(TRAINING_CATEGORY_MAP)] ==
            IF i = 0 THEN Hubs
            ELSE LET training_category == TRAINING_CATEGORY_MAP[i][1]
                     training_subnode == TrainingSubnode(TRAINING_CATEGORY_MAP[i][2])
                 IN  IF HasNode(Subs[i - 1], training_subnode) THEN Subs[i - 1]
                     ELSE add_edge(add_node(Subs[i - 1], training_subnode,
                                            [type |-> "training_category",
                                             training_category |-> training_category]),
                                   <<"Training">>, training_subnode, NoAttrs)
    IN  Subs[Len(TRAINING_CATEGORY_MAP)]

\* KnowledgeGraph.__init__
KnowledgeGraphInit ==
    LET Cats[i \in 0..Len(CATEGORIES)] ==
            IF i = 0 THEN EmptyGraph
            ELSE add_node(Cats[i - 1], CATEGORIES[i], [type |-> "category"])
        Hubs == add_node(add_node(Cats[Len(CATEGORIES)],
                                  <<"Training">>, [type |-> "training_main"]),
                         <<"Documents">>, [type |-> "document_main"])
        Subs[i \in 0..Len(TRAINING_CATEGORY_MAP)] ==
            IF i = 0 THEN Hubs
            ELSE LET training_category == TRAINING_CATEGORY_MAP[i][1]
                     training_subnode == TrainingSubnode(TRAINING_CATEGORY_MAP[i][2])
                 IN  add_edge(add_node(Subs[i - 1], training_subnode,
                                       [type |-> "training_category",
                                        training_category |-> training_category]),
                              <<"Training">>, training_subnode, NoAttrs)
    IN  Subs[Len(TRAINING_CATEGORY_MAP)]

\* A node id made of the whole question
EntryNodeIdWhole(category, question) == category \o <<":">> \o question

\* A node id made of one character less of the question
EntryNodeIdOneLess(category, question) ==
    category \o <<":">> \o Take(question, PrefixLen - 1)

\* f"{category}:{question[:30]}"
EntryNodeId(category, question) == category \o <<":">> \o Take(question, PrefixLen)

\* add_entry without its category check
add_entry_unchecked(G, category, question, answer, extra) ==
    LET node_id == EntryNodeId(category, question)
        attrs == Update(Update([question |-> question, answer |-> answer], extra),
                        [type |-> "qa"])
    IN  Returned(add_edge(add_node(G, node_id, attrs), category, node_id, NoAttrs),
                 node_id)

\* KnowledgeGraph.add_entry.  extra holds attribute names other than the
\* call's own keywords question, answer and type.
add_entry(G, category, question, answer, extra) ==
    IF category \notin CategorySet
    THEN Raised(G, "ValueError")
    ELSE LET node_id == EntryNodeId(category, question)
             attrs == Update(Update([question |-> question, answer |-> answer], extra),
                             [type |-> "qa"])
         IN  Returned(add_edge(add_node(G, node_id, attrs), category, node_id, NoAttrs),
                      node_id)

\* TRAINING_CATEGORY_MAP.get(training_category)
MapGet(training_category) ==
    LET hits == {i \in DOMAIN TRAINING_CATEGORY_MAP :
                    TRAINING_CATEGORY_MAP[i][1] = training_category}
    IN  IF hits = {} THEN None
        ELSE TRAINING_CATEGORY_MAP[CHOOSE i \in hits : \A j \in hits : j <= i][2]

TrainingNodeId(question_id, timestamp) ==
    <<"training_">> \o question_id \o <<"_">>
        \o Replace(Replace(timestamp, ":", "_"), ".", "_")

\* add_training_entry without its return on an unmapped category
add_training_entry_unguarded(G, training_category, question_id, question, answer, answer_type, timestamp) ==
    LET kg_category == MapGet(training_category)
    IN  IF ~IsStr(timestamp)
        THEN Raised(G, "AttributeError")
        ELSE LET node_id == TrainingNodeId(question_id, timestamp)
                 attrs == [question |-> question,
                           answer |-> Str(answer),
                           question_id |-> question_id,
                           training_category |-> training_category,
                           answer_type |-> answer_type,
                           timestamp |-> timestamp,
                           type |-> "training_qa"]
             IN  Returned(add_edge(add_node(G, node_id, attrs),
                                   TrainingSubnode(IF kg_category = None
                                                   THEN <<"None">> ELSE kg_category),
                                   node_id, NoAttrs),
                          None)

\* KnowledgeGraph.add_training_entry
add_training_entry(G, training_category, question_id, question, answer, answer_type, timestamp) ==
    LET kg_category == MapGet(training_category)
    IN  IF kg_category = None
        THEN Returned(G, None)
        ELSE IF ~IsStr(timestamp)
        THEN Raised(G, "AttributeError")
        ELSE LET node_id == TrainingNodeId(question_id, timestamp)
                 formatted_answer ==
                     IF answer_type = "multiple_choice" /\ answer.kind = "list"
                     THEN Join(answer.v)
                     ELSE Str(answer)
                 attrs == [question |-> question,
                           answer |-> formatted_answer,
                           question_id |-> question_id,
                           training_category |-> training_category,
                           answer_type |-> answer_type,
                           timestamp |-> timestamp,
                           type |-> "training_qa"]
             IN  Returned(add_edge(add_node(G, node_id, attrs),
                                   TrainingSubnode(kg_category), node_id, NoAttrs),
                          None)

\* A JSON file of training records, training_data.json: absent, not
\* parseable, or a list of records.
AbsentStore == [state |-> "absent", records |-> <<>>]

CorruptStore == [state |-> "corrupt", records |-> <<>>]

ValidStore(records) == [state |-> "valid", records |-> records]

\* The nodes that carry a question: QA nodes and TrainingQANodes
QuestionNodes(G) == {n \in Nodes(G) : "question" \in DOMAIN G.attr[n]}

\* [n for n, d in self.graph.nodes(data=True) if d.get('type') == 'training_qa']
TrainingNodes(G) == {n \in Nodes(G) : Get(G.attr[n], "type", "") = "training_qa"}

\* A sync that removes nothing first
KeepTrainingNodes(G) == G

\* A sync that removes every node that carries a question
RemoveQuestionNodes(G) == remove_nodes_from(G, QuestionNodes(G))

\* "Remove existing training nodes to avoid duplicates"
RemoveTrainingNodes(G) == remove_nodes_from(G, TrainingNodes(G))

\* A sync that removes the training nodes before it reads the file
sync_removing_first(G, file) ==
    IF file.state = "absent" THEN Returned(G, None)
    ELSE Returned(RemoveTrainingNodes(G), None)

\* KnowledgeGraph.sync_with_training_data, file being the file at
\* training_data_path.  An exception inside the try ends the loop where it
\* is and is swallowed.
sync_with_training_data(G, file) ==
    IF file.state # "valid"
    THEN Returned(G, None)
    ELSE LET training_data == file.records
             removed == RemoveTrainingNodes(G)
             Loop[i \in 0..Len(training_data)] ==
                 IF i = 0 THEN Returned(removed, None)
                 ELSE IF Loop[i - 1].raised # "" THEN Loop[i - 1]
                 ELSE LET entry == training_data[i]
                      IN  add_training_entry(Loop[i - 1].graph,
                              Get(entry, "category", ""),
                              Get(entry, "question_id", <<>>),
                              Get(entry, "question", <<>>),
                              Get(entry, "answer", StrAnswer("")),
                              Get(entry, "answer_type", ""),
                              Get(entry, "timestamp", <<>>))
         IN  Returned(Loop[Len(training_data)].graph, None)

\* An edge between the two nodes that carries no relation
add_relationship_unlabelled(G, from_node, to_node, relation) ==
    Returned(add_edge(G, from_node, to_node, NoAttrs), None)

\* KnowledgeGraph.add_relationship
add_relationship(G, from_node, to_node, relation) ==
    Returned(add_edge(G, from_node, to_node, [relation |-> relation]), None)

(***************************************************************************)
(* The persisted graph, knowledge_graph.pkl: absent, not loadable, or the  *)
(* pickle of a graph.                                                      *)
(***************************************************************************)
\* graph is the graph that the bytes of the file unpickle to.
AbsentFile == [state |-> "absent", graph |-> EmptyGraph]

CorruptFile == [state |-> "corrupt", graph |-> EmptyGraph]

ValidFile(G) == [state |-> "valid", graph |-> G]

\* What open(path, "wb") followed by pickle.dump can do: write the file;
\* fail in open, the file untouched; fail in dump, the file already truncated.
SaveOutcomes == {"ok", "open_fails", "write_fails"}

\* A pickle that writes the nodes and not the adjacency
DumpNodes(G) ==
    [node |-> [i \in DOMAIN G.order |-> <<G.order[i], G.attr[G.order[i]]>>],
     adj |-> [i \in DOMAIN G.order |-> <<G.order[i], <<>> >>]]

\* pickle.dump(self.graph, f): the items of the graph's _node dict and of
\* its _adj dict of dicts, each dict in its insertion order.
Dump(G) ==
    [node |-> [i \in DOMAIN G.order |-> <<G.order[i], G.attr[G.order[i]]>>],
     adj |-> [i \in DOMAIN G.order |->
                <<G.order[i],
                  [j \in DOMAIN G.adj[G.order[i]] |->
                      <<G.adj[G.order[i]][j],
                        G.eattr[<<G.order[i], G.adj[G.order[i]][j]>>]>>]>>]]

\* pickle.load(f): the dicts built again from their items
Undump(P) ==
    LET ids == {P.node[i][1] : i \in DOMAIN P.node}
        At(items, k) == items[CHOOSE i \in DOMAIN items : items[i][1] = k][2]
        pairs == UNION {{<<P.adj[i][1], P.adj[i][2][j][1]>> : j \in DOMAIN P.adj[i][2]} :
                           i \in DOMAIN P.adj}
    IN  [order |-> [i \in DOMAIN P.node |-> P.node[i][1]],
         attr |-> [n \in ids |-> At(P.node, n)],
         adj |-> [n \in ids |-> [j \in DOMAIN At(P.adj, n) |-> At(P.adj, n)[j][1]]],
         eattr |-> [e \in pairs |-> At(At(P.adj, e[1]), e[2])]]

\* The graph that the file written from G unpickles to; g and p are G and
\* its pickle, worked out once.
Pickled(G) == CHOOSE H \in {Undump(p) : p \in {Dump(g) : g \in {G}}} : TRUE

\* KnowledgeGraph.save: [file: the file after the call, raised]
save(G, file, outcome) ==
    IF outcome = "ok" THEN [file |-> ValidFile(Pickled(G)), raised |-> ""]
    ELSE IF outcome = "open_fails" THEN [file |-> file, raised |-> "OSError"]
    ELSE [file |-> CorruptFile, raised |-> "OSError"]

\* KnowledgeGraph.load: self.graph is replaced only when pickle.load returns.
load(G, file) ==
    IF file.state = "valid" THEN Returned(file.graph, None)
    ELSE IF file.state = "absent" THEN Raised(G, "FileNotFoundError")
    ELSE Raised(G, "UnpicklingError")

(***************************************************************************)
(* The document-fact adapter: the graph part of                            *)
(* analyze_document_placeholder, run when the extraction gave entries.     *)
(***************************************************************************)
DocNodeId(document_info) == <<"Doc_", document_info.id>>

UnknownQuestion ==
    <<"U","n","k","n","o","w","n"," ","q","u","e","s","t","i","o","n">>

\* A writer that starts from a new graph whatever the file holds
LoadOrNot(file) == KnowledgeGraphInit

\* kg = KnowledgeGraph(); try: kg.load(...) except: pass
LoadOrNew(file) == load(KnowledgeGraphInit, file).graph

\* "Ensure main Documents hub exists"
EnsureDocumentsHub(G) ==
    IF ~HasNode(G, <<"Documents">>)
    THEN add_node(G, <<"Documents">>, [type |-> "document_main", color |-> "blue"])
    ELSE [G EXCEPT !.attr[<<"Documents">>] = Update(@, [color |-> "blue"])]

\* A document node rewritten from document_info at every analysis
EnsureDocumentNodeAnew(G, document_info, timestamp) ==
    LET doc_node_id == DocNodeId(document_info)
    IN  add_edge(add_node(G, doc_node_id,
                          [type |-> "document_instance",
                           filename |-> Get(document_info, "filename", ""),
                           document_id |-> document_info.id,
                           file_type |-> Get(document_info, "file_type", ""),
                           file_size |-> Get(document_info, "file_size", 0),
                           upload_date |-> Str(Get(document_info, "upload_date",
                                                   StrAnswer(""))),
                           analysis_timestamp |-> timestamp,
                           color |-> "blue"]),
                 <<"Documents">>, doc_node_id, NoAttrs)

\* "Create (or fetch existing) node for this specific document"
EnsureDocumentNode(G, document_info, timestamp) ==
    LET doc_node_id == DocNodeId(document_info)
    IN  IF ~HasNode(G, doc_node_id)
        THEN add_edge(add_node(G, doc_node_id,
                               [type |-> "document_instance",
                                filename |-> Get(document_info, "filename", ""),
                                document_id |-> document_info.id,
                                file_type |-> Get(document_info, "file_type", ""),
                                file_size |-> Get(document_info, "file_size", 0),
                                upload_date |-> Str(Get(document_info, "upload_date",
                                                        StrAnswer(""))),
                                analysis_timestamp |-> timestamp,
                                color |-> "blue"]),
                      <<"Documents">>, doc_node_id, NoAttrs)
        ELSE [G EXCEPT !.attr[doc_node_id] =
                           Update(@, [analysis_timestamp |-> timestamp])]

\* A turn without the fallback: the ValueError leaves the loop
AddDocumentEntryNoFallback(G, doc_node_id, entry) ==
    LET category == Get(entry, "category", <<"Knowledge">>)
        question == Get(entry, "question", UnknownQuestion)
        answer == Get(entry, "answer", "")
    IN  IF ~IsStr(question) THEN Raised(G, "TypeError")
        ELSE LET first_try == add_entry(G, category, question, answer, NoAttrs)
             IN  IF first_try.raised # "" THEN first_try
                 ELSE add_relationship(first_try.graph, doc_node_id, first_try.value,
                                       "contains")

\* A turn that links the document to the id of the whole question
AddDocumentEntryByQuestion(G, doc_node_id, entry) ==
    LET category == Get(entry, "category", <<"Knowledge">>)
        question == Get(entry, "question", UnknownQuestion)
        answer == Get(entry, "answer", "")
    IN  IF ~IsStr(question) THEN Raised(G, "TypeError")
        ELSE LET first_try == add_entry(G, category, question, answer, NoAttrs)
                 added == IF first_try.raised = "ValueError"
                          THEN add_entry(G, <<"Knowledge">>, question, answer, NoAttrs)
                          ELSE first_try
             IN  add_relationship(added.graph, doc_node_id,
                                  <<"Knowledge">> \o <<":">> \o question, "contains")

\* One turn of "for i, entry in enumerate(kg_res['entries'])".  Only the
\* ValueError of add_entry is caught; slicing a question that is no str
\* raises TypeError out of the loop.
AddDocumentEntry(G, doc_node_id, entry) ==
    LET category == Get(entry, "category", <<"Knowledge">>)
        question == Get(entry, "question", UnknownQuestion)
        answer == Get(entry, "answer", "")
    IN  IF ~IsStr(question) THEN Raised(G, "TypeError")
        ELSE LET first_try == add_entry(G, category, question, answer, NoAttrs)
                 added == IF first_try.raised = "ValueError"
                          THEN add_entry(G, <<"Knowledge">>, question, answer, NoAttrs)
                          ELSE first_try
             IN  add_relationship(added.graph, doc_node_id, added.value, "contains")

\* Lines 269-342: [file: knowledge_graph.pkl after the run, graph: the graph
\* in memory at its end, raised: the exception the outer except logged].
StoreDocumentEntries(file, document_info, entries, timestamp, outcome) ==
    LET doc_node_id == DocNodeId(document_info)
        start == EnsureDocumentNode(EnsureDocumentsHub(LoadOrNew(file)),
                                    document_info, timestamp)
        Loop[i \in 0..Len(entries)] ==
            IF i = 0 THEN Returned(start, None)
            ELSE LET done == Loop[i - 1]
                 IN  IF done.raised # "" THEN done
                     ELSE AddDocumentEntry(done.graph, doc_node_id, entries[i])
        looped == Loop[Len(entries)]
        saved == save(looped.graph, file, outcome)
    IN  IF looped.raised # ""
        THEN [file |-> file, graph |-> looped.graph, raised |-> looped.raised]
        ELSE [file |-> saved.file, graph |-> looped.graph, raised |-> saved.raised]

(***************************************************************************)
(* KnowledgeGraphExtractor.process (processors.py) and the results of      *)
(* analyze_document_placeholder.  A response is what the call of the LLM   *)
(* met: [valid_input, api_key, call: "ok" or "raises", output], output     *)
(* being the text the LLM gave, read as JSON: [kind: "unparseable",        *)
(* "scalar", "object" or "array", items].  An item is a dict that holds    *)
(* the three fields as strings ([kind: "entry", entry]), a dict that lacks *)
(* one ("missing"), a dict with a field that is no str ("nonstr"), or no   *)
(* dict ("nondict").  A category and an answer are whole pieces, without   *)
(* blanks around them.                                                     *)
(***************************************************************************)
ErrorResult(message) == [error |-> message, entries |-> <<>>]

\* s.strip(), for blanks
Strip(s) ==
    LET inked == {i \in DOMAIN s : s[i] # " "}
        lo == CHOOSE i \in inked : \A j \in inked : i <= j
        hi == CHOOSE i \in inked : \A j \in inked : j <= i
    IN  IF inked = {} THEN <<>> ELSE SubSeq(s, lo, hi)

\* valid_entry = {"category": str(entry["category"].strip()), ...}
ValidEntry(item) ==
    [category |-> item.entry.category, question |-> Strip(item.entry.question),
     answer |-> item.entry.answer]

\* "Validate each entry structure": .strip() of a field that is no str and
\* "field not in entry" of an item that is no dict raise, and the outer
\* except turns that into an error result.
ValidateEntries(items) ==
    LET IsEntry(item) == item.kind = "entry"
        valid_entries == Map(Filter(items, IsEntry), ValidEntry)
    IN  IF \E i \in DOMAIN items : items[i].kind \in {"nonstr", "nondict"}
        THEN ErrorResult("Knowledge graph extraction failed")
        ELSE IF valid_entries = <<>>
        THEN ErrorResult("No valid entries extracted")
        ELSE [error |-> "", entries |-> valid_entries]

\* A process whose LLM call error leaves it
process_unguarded(response) ==
    IF ~response.valid_input
    THEN [result |-> ErrorResult("Invalid input"), raised |-> ""]
    ELSE IF ~response.api_key
    THEN [result |-> ErrorResult("ANTHROPIC_API_KEY environment variable is not set"),
          raised |-> ""]
    ELSE IF response.call = "raises"
    THEN [result |-> ErrorResult(""), raised |-> "APIError"]
    ELSE IF response.output.kind = "unparseable"
    THEN [result |-> ErrorResult("LLM output parse error"), raised |-> ""]
    ELSE IF response.output.kind = "scalar"
    THEN [result |-> ErrorResult("LLM output not a JSON array"), raised |-> ""]
    ELSE [result |-> ValidateEntries(response.output.items), raised |-> ""]

\* KnowledgeGraphExtractor.process: [result, raised]
process(response) ==
    IF ~response.valid_input
    THEN [result |-> ErrorResult("Invalid input"), raised |-> ""]
    ELSE IF ~response.api_key
    THEN [result |-> ErrorResult("ANTHROPIC_API_KEY environment variable is not set"),
          raised |-> ""]
    ELSE IF response.call = "raises"
    THEN [result |-> ErrorResult("Knowledge graph extraction failed"), raised |-> ""]
    ELSE IF response.output.kind = "unparseable"
    THEN [result |-> ErrorResult("LLM output parse error"), raised |-> ""]
    ELSE IF response.output.kind = "scalar"
    THEN [result |-> ErrorResult("LLM output not a JSON array"), raised |-> ""]
    ELSE [result |-> ValidateEntries(response.output.items), raised |-> ""]

\* The analysis types that analyze_document_placeholder knows
AnalysisTypes ==
    {"knowledge_extraction", "text_extraction", "sentiment", "keywords", "summary",
     "metadata"}

\* results[analysis_type] of a type other than knowledge_extraction
Placeholder(analysis_type) == [of |-> analysis_type]

\* The results dict after "for analysis_type in analysis_types"
Results(analysis_types, res) ==
    [t \in Range(analysis_types) \cap AnalysisTypes |->
        IF t = "knowledge_extraction" THEN res ELSE Placeholder(t)]

(***************************************************************************)
(* The analysis records of process_document_analysis: the list that        *)
(* load_analysis_data gives ([] when there is no file) and                 *)
(* save_analysis_data writes whole.  A record is [document_id, status,     *)
(* results: None or the analysis types that have a result,                 *)
(* error_message].                                                         *)
(***************************************************************************)
\* "for record in analysis_data: if record['document_id'] == document_id"
RecordOf(analysis_data, document_id) ==
    {i \in DOMAIN analysis_data :
        /\ analysis_data[i].document_id = document_id
        /\ \A j \in 1..(i - 1) : analysis_data[j].document_id # document_id}

\* "Create or update analysis record"
StartRecord(analysis_data, document_id) ==
    IF RecordOf(analysis_data, document_id) = {}
    THEN Append(analysis_data,
                [document_id |-> document_id, status |-> "processing",
                 results |-> None, error_message |-> None])
    ELSE [i \in DOMAIN analysis_data |->
             IF i \in RecordOf(analysis_data, document_id)
             THEN [analysis_data[i] EXCEPT !.status = "processing",
                                           !.error_message = None]
             ELSE analysis_data[i]]

\* "Update record with results" or "with error": analysis_record is the
\* record of the list that the task holds.
EndRecord(analysis_data, document_id, status, results, error_message) ==
    [i \in DOMAIN analysis_data |->
        IF i \in RecordOf(analysis_data, document_id)
        THEN [analysis_data[i] EXCEPT !.status = status,
                                      !.results = IF status = "completed" THEN results ELSE @,
                                      !.error_message = IF status = "failed"
                                                        THEN error_message ELSE @]
        ELSE analysis_data[i]]

(***************************************************************************)
(* The read API, GET /knowledge-graph (main.py)                            *)
(***************************************************************************)
ExampleEntries ==
    << [category |-> <<"Knowledge">>,
        question |-> <<"W","h","a","t"," ","i","s"," ","y","o","u","r"," ","e","x","p",
                       "e","r","t","i","s","e","?">>,
        answer |-> "AI, coding, philosophy"],
       [category |-> <<"Feelings">>,
        question |-> <<"H","o","w"," ","d","o"," ","y","o","u"," ","f","e","e","l"," ",
                       "t","o","d","a","y","?">>,
        answer |-> "Curious and motivated"],
       [category |-> <<"Personalities">>,
        question |-> <<"W","h","i","c","h"," ","o","f"," ","t","h","e"," ","B","i","g",
                       " ","F","i","v","e"," ","f","i","t","s"," ","y","o","u"," ","b",
                       "e","s","t","?">>,
        answer |-> "Openness to experience"],
       [category |-> <<"ImportanceOfPeople">>,
        question |-> <<"W","h","o"," ","i","s"," ","m","o","s","t"," ","i","m","p","o",
                       "r","t","a","n","t"," ","i","n"," ","y","o","u","r"," ","l","i",
                       "f","e","?">>,
        answer |-> "Family and close friends"],
       [category |-> <<"Preferences">>,
        question |-> <<"W","h","a","t"," ","i","s"," ","y","o","u","r"," ","f","a","v",
                       "o","r","i","t","e"," ","h","o","b","b","y","?">>,
        answer |-> "Reading science fiction"],
       [category |-> <<"Morals">>,
        question |-> <<"I","s"," ","h","o","n","e","s","t","y"," ","a","l","w","a","y",
                       "s"," ","t","h","e"," ","b","e","s","t"," ","p","o","l","i","c",
                       "y","?">>,
        answer |-> "Usually, but context matters"],
       [category |-> <<"AutomaticQuestions">>,
        question |-> <<"W","h","a","t"," ","w","o","u","l","d"," ","y","o","u"," ","l",
                       "i","k","e"," ","t","o"," ","l","e","a","r","n"," ","n","e","x",
                       "t","?">>,
        answer |-> "Graph databases"] >>

\* The seven add_entry calls of the except branch
WithExamples(G) ==
    LET Add[i \in 0..Len(ExampleEntries)] ==
            IF i = 0 THEN G
            ELSE add_entry(Add[i - 1], ExampleEntries[i].category,
                           ExampleEntries[i].question, ExampleEntries[i].answer,
                           NoAttrs).graph
    IN  Add[Len(ExampleEntries)]

\* The graph the except branch builds on the new KnowledgeGraph
ExampleGraph == WithExamples(KnowledgeGraphInit)

\* node_data = {"id": node}; node_data.update(data), and the same for links
NodeData(item) == Update([id |-> item[1]], item[2])

LinkData(item) == Update([source |-> item[1], target |-> item[2]], item[3])

Flatten(G) ==
    [nodes |-> Map(NodeList(G), NodeData), links |-> Map(EdgeList(G), LinkData)]

\* A read that adds the examples to the graph it loaded and saves it
get_knowledge_graph_seeding(file, outcome) ==
    LET loaded == load(KnowledgeGraphInit, file)
        held == WithExamples(loaded.graph)
        saved == save(held, file, outcome)
    IN  IF saved.raised # ""
        THEN [file |-> saved.file, status |-> 500, body |-> Flatten(EmptyGraph)]
        ELSE [file |-> saved.file, status |-> 200, body |-> Flatten(held)]

\* get_knowledge_graph: [file, status, body].  A save that raises in the
\* except branch reaches the outer except, which answers HTTP 500.
get_knowledge_graph(file, outcome) ==
    LET loaded == load(KnowledgeGraphInit, file)
        held == IF loaded.raised = "" THEN loaded.graph
                ELSE ExampleGraph
        saved == IF loaded.raised = "" THEN [file |-> file, raised |-> ""]
                 ELSE save(held, file, outcome)
    IN  IF saved.raised # ""
        THEN [file |-> saved.file, status |-> 500, body |-> Flatten(EmptyGraph)]
        ELSE [file |-> saved.file, status |-> 200, body |-> Flatten(held)]

(***************************************************************************)
(* The training routes (training.py) and their store, training_data.json   *)
(***************************************************************************)
\* load_training_data: the parsed list, or [] when there is no readable file.
load_training_data(store) == IF store.state = "valid" THEN store.records ELSE <<>>

Digits == <<"0", "1", "2", "3", "4", "5", "6", "7", "8", "9">>

\* datetime.isoformat() of the clock reading t: a time of day with its ':'
\* and its '.' (t < 100).
IsoFormat(t) == <<Digits[(t \div 10) + 1], Digits[(t % 10) + 1], ":", "0", ".", "0">>

\* answer.dict() with answer_dict["timestamp"] = datetime.now().isoformat()
AnswerDict(answer, t) == Update(answer, [timestamp |-> IsoFormat(t)])

\* save_training_answer: [store, status].  Nothing here touches the graph.
save_training_answer(store, answer, t, outcome) ==
    LET training_data == Append(load_training_data(store), AnswerDict(answer, t))
    IN  IF outcome = "ok" THEN [store |-> ValidStore(training_data), status |-> 200]
        ELSE IF outcome = "open_fails" THEN [store |-> store, status |-> 500]
        ELSE [store |-> CorruptStore, status |-> 500]

\* save_training_session: answer i of the session is stamped at t + i - 1.
save_training_session(store, answers, t, outcome) ==
    LET training_data ==
            load_training_data(store)
                \o [i \in DOMAIN answers |-> AnswerDict(answers[i], t + i - 1)]
    IN  IF outcome = "ok" THEN [store |-> ValidStore(training_data), status |-> 200]
        ELSE IF outcome = "open_fails" THEN [store |-> store, status |-> 500]
        ELSE [store |-> CorruptStore, status |-> 500]

(***************************************************************************)
(* State                                                                   *)
(***************************************************************************)
VARIABLES
    kg,       \* the graph of a KnowledgeGraph instance held by a caller
    pkl,      \* knowledge_graph.pkl
    store,    \* training_data.json
    now,      \* the clock; every call takes at least one tick
    last,     \* the last call: its name, its arguments, what it gave back
    before,   \* the graph the last call started from
    first,    \* history: document node id -> its attributes when the node
              \* was made in the graph that knowledge_graph.pkl holds
    tasks,    \* the background analyses: where each stands, what it holds
    analysis  \* upload_processing/analysis_results.json, as the list of
              \* records that load_analysis_data reads from it

vars == <<kg, pkl, store, now, last, before, first, tasks, analysis>>

\* Calls per behaviour
MaxOps == 3

(***************************************************************************)
(* Inputs                                                                  *)
(***************************************************************************)
\* Two questions that agree on their first PrefixLen characters and differ
\* after them, one of exactly PrefixLen characters, a short one.
QPrefix == [i \in 1..PrefixLen |-> "q"]

QLong1 == QPrefix \o <<"1">>

QLong2 == QPrefix \o <<"2">>

QShort == <<"h", "i", "?">>

Questions == {QLong1, QLong2, QShort}

EntryCategories == {<<"Knowledge">>, <<"Feelings">>, <<"Nonsense">>}

\* (answer, extra) of an add_entry call
Payloads == {<<"A1", NoAttrs>>, <<"A2", [source |-> "s1"]>>}

Relations == {"contains", "related"}

\* Training records: R1 and R2 differ only in ':' against '.' of the
\* timestamp, R4 has R1's question id and timestamp under another category,
\* R5 has a category the table does not map.
TrainingRecord(c, qid, a, at, ts) ==
    [category |-> c, question_id |-> qid, question |-> <<"Q", "?">>,
     answer |-> a, answer_type |-> at, timestamp |-> ts]

R1 == TrainingRecord("Preferences", <<"p", "1">>, StrAnswer("tea"), "text", <<"1", ":", "0">>)

R2 == TrainingRecord("Preferences", <<"p", "1">>, ListAnswer(<<"a", "b">>), "multiple_choice", <<"1", ".", "0">>)

R3 == TrainingRecord("Questions about my knowledge", <<"k", "1">>, ListAnswer(<<"a", "b">>), "text", <<"2", ":", "0">>)

R4 == TrainingRecord("Moral questions", <<"p", "1">>, StrAnswer("yes"), "text", <<"1", ":", "0">>)

R5 == TrainingRecord("Nonexistent Category", <<"n", "1">>, StrAnswer("x"), "text", <<"3", ":", "0">>)

\* A record whose timestamp is a JSON number
R6 == TrainingRecord("Preferences", <<"p", "2">>, StrAnswer("x"), "text", NotAStr)

\* A record of the empty category whose timestamp is a JSON number
R7 == TrainingRecord("", <<"e", "1">>, StrAnswer("x"), "text", NotAStr)

TrainingRecords == {R1, R2, R3, R4, R5, R6}

Snapshots ==
    {<<>>, <<R1>>, <<R3>>, <<R5>>, <<R1, R3>>, <<R1, R2>>, <<R1, R4>>, <<R5, R3>>,
     <<R6, R3>>, <<R1, R2, R3>>}

TrainingFiles == {ValidStore(S) : S \in Snapshots} \cup {AbsentStore, CorruptStore}

\* Ends of add_relationship: a category, a QA node's id, an id no call makes.
EntrySources == {<<"Knowledge">>, <<"X">>}

EntryTargets == {EntryNodeId(<<"Knowledge">>, QShort), <<"X">>}

\* Ends of add_relationship: a TrainingQANode's id, an id no call makes.
TrainingEnds == {TrainingNodeId(R3.question_id, R3.timestamp), <<"X">>}

\* Documents: D1 and D1Again are one document whose metadata differ between
\* two analyses, D2 is another document.
D1 ==
    [id |-> "d1", filename |-> "a.txt", file_type |-> "txt", file_size |-> 10,
     upload_date |-> StrAnswer("2024-01-01")]

D1Again ==
    [id |-> "d1", filename |-> "b.txt", file_type |-> "md", file_size |-> 20,
     upload_date |-> StrAnswer("2024-02-02")]

D2 ==
    [id |-> "d2", filename |-> "c.txt", file_type |-> "txt", file_size |-> 30,
     upload_date |-> StrAnswer("2024-03-03")]

\* What KnowledgeGraphExtractor.process gives: an error, or a list of
\* entries of three strings each, never an empty list.
Entry(c, q, a) == [category |-> c, question |-> q, answer |-> a]

ExtractionError == [error |-> "No valid entries extracted", entries |-> <<>>]

Extracted(entries) == [error |-> "", entries |-> entries]

\* One entry
Single == Extracted(<<Entry(<<"Feelings">>, QShort, "A1")>>)

\* Two valid entries and one of an unknown category
Mixed ==
    Extracted(<<Entry(<<"Knowledge">>, QLong1, "A1"), Entry(<<"Feelings">>, QShort, "A1"),
                Entry(<<"Nonsense">>, QShort, "A2")>>)

\* Two entries of one category whose questions agree on their first
\* PrefixLen characters
SamePrefix ==
    Extracted(<<Entry(<<"Knowledge">>, QLong1, "A1"), Entry(<<"Knowledge">>, QLong2, "A2")>>)

\* An entry of an unknown category before two valid ones
BadFirst ==
    Extracted(<<Entry(<<"Nonsense">>, QLong1, "A1"), Entry(<<"Feelings">>, QShort, "A1"),
                Entry(<<"Knowledge">>, QShort, "A2")>>)

\* An entry of an unknown category and a Knowledge entry of the same question
FallbackMeets ==
    Extracted(<<Entry(<<"Nonsense">>, QShort, "A1"), Entry(<<"Knowledge">>, QShort, "A2")>>)

(***************************************************************************)
(* The calls on a KnowledgeGraph instance                                  *)
(***************************************************************************)
Init ==
    /\ kg = KnowledgeGraphInit
    /\ pkl = AbsentFile
    /\ store = AbsentStore
    /\ now = 0
    /\ last = [op |-> "init"]
    /\ before = EmptyGraph
    /\ first = NoAttrs
    /\ tasks = <<>>
    /\ analysis = <<>>

AddEntry(category, question, answer, extra) ==
    LET r == add_entry(kg, category, question, answer, extra)
    IN  /\ now < MaxOps
        /\ kg' = r.graph
        /\ before' = kg
        /\ now' = now + 1
        /\ last' = [op |-> "add_entry", category |-> category, question |-> question,
                    answer |-> answer, extra |-> extra,
                    raised |-> r.raised, value |-> r.value]
        /\ UNCHANGED <<pkl, store, first, tasks, analysis>>

AddRelationship(from_node, to_node, relation) ==
    LET r == add_relationship(kg, from_node, to_node, relation)
    IN  /\ now < MaxOps
        /\ kg' = r.graph
        /\ before' = kg
        /\ now' = now + 1
        /\ last' = [op |-> "add_relationship", from_node |-> from_node,
                    to_node |-> to_node, relation |-> relation, raised |-> r.raised]
        /\ UNCHANGED <<pkl, store, first, tasks, analysis>>

AddTrainingEntry(e) ==
    LET r == add_training_entry(kg, e.category, e.question_id, e.question, e.answer, e.answer_type, e.timestamp)
    IN  /\ now < MaxOps
        /\ kg' = r.graph
        /\ before' = kg
        /\ now' = now + 1
        /\ last' = [op |-> "add_training_entry", entry |-> e, raised |-> r.raised]
        /\ UNCHANGED <<pkl, store, first, tasks, analysis>>

SyncWithTrainingData(file) ==
    LET r == sync_with_training_data(kg, file)
    IN  /\ now < MaxOps
        /\ kg' = r.graph
        /\ before' = kg
        /\ now' = now + 1
        /\ last' = [op |-> "sync_with_training_data", file |-> file,
                    raised |-> r.raised]
        /\ UNCHANGED <<pkl, store, first, tasks, analysis>>

Save(outcome) ==
    LET r == save(kg, pkl, outcome)
    IN  /\ now < MaxOps
        /\ pkl' = r.file
        /\ before' = kg
        /\ now' = now + 1
        /\ last' = [op |-> "save", outcome |-> outcome, raised |-> r.raised]
        /\ UNCHANGED <<kg, store, first, tasks, analysis>>

Load ==
    LET r == load(kg, pkl)
    IN  /\ now < MaxOps
        /\ kg' = r.graph
        /\ before' = kg
        /\ now' = now + 1
        /\ last' = [op |-> "load", raised |-> r.raised]
        /\ UNCHANGED <<pkl, store, first, tasks, analysis>>

\* A whole analysis of a document whose extraction gave kg_res, the clock
\* read once: kg is then the graph the adapter held, before the one it
\* loaded.  more holds what the caller records beside.
AnalysisWith(document_info, kg_res, outcome, more) ==
    \E r \in {StoreDocumentEntries(pkl, document_info, kg_res.entries,
                                   IsoFormat(now), outcome)} :
        LET loaded == LoadOrNew(pkl)
            doc_node_id == DocNodeId(document_info)
            stores == kg_res.entries # <<>>
        IN
        /\ now' = now + 1
        /\ pkl' = IF stores THEN r.file ELSE pkl
        /\ kg' = IF stores THEN r.graph ELSE kg
        /\ before' = IF stores THEN loaded ELSE kg
        /\ first' = IF stores /\ r.raised = "" /\ ~HasNode(loaded, doc_node_id)
                    THEN Update(first, [n \in {doc_node_id} |-> r.graph.attr[n]])
                    ELSE first
        /\ last' = Update([op |-> "analyze_document", document_info |-> document_info,
                            kg_res |-> kg_res, outcome |-> outcome,
                            timestamp |-> IsoFormat(now),
                            raised |-> IF stores THEN r.raised ELSE ""],
                           more)
        /\ UNCHANGED store

Analysis(document_info, kg_res, outcome) ==
    AnalysisWith(document_info, kg_res, outcome, NoAttrs)

AnalyzeDocument(document_info, kg_res, outcome) ==
    /\ now < MaxOps
    /\ Analysis(document_info, kg_res, outcome)
    /\ UNCHANGED <<tasks, analysis>>

\* process_document_analysis from its start to its end: the analysis record
\* ends "completed" when analyze_document_placeholder returns and "failed"
\* when an exception leaves it.
ProcessDocumentAnalysis(document_info, analysis_types, response, outcome) ==
    LET requested == "knowledge_extraction" \in Range(analysis_types)
        run == process(response)
        left == requested /\ run.raised # ""
        kg_res == IF requested /\ ~left THEN run.result ELSE ErrorResult("")
    IN  /\ now < MaxOps
        /\ AnalysisWith(document_info, kg_res, outcome,
                        [op |-> "process_document_analysis",
                         analysis_types |-> analysis_types,
                         response |-> response,
                         file |-> pkl,
                         results |-> IF left THEN NoAttrs
                                     ELSE Results(analysis_types, run.result),
                         status |-> IF left THEN "failed" ELSE "completed",
                         error_message |-> run.raised])
        /\ analysis' = EndRecord(StartRecord(analysis, document_info.id),
                                 document_info.id,
                                 IF left THEN "failed" ELSE "completed",
                                 IF left THEN None ELSE DOMAIN Results(analysis_types, run.result),
                                 IF left THEN run.raised ELSE None)
        /\ UNCHANGED tasks

(***************************************************************************)
(* The background analyses.  The server runs one event loop (uvicorn, one  *)
(* process): a task gives the loop away at its awaits and nowhere else, so *)
(* what lies between two awaits is one step.  process_document_analysis    *)
(* awaits get_document_info, get_file_content and the extractor; from the  *)
(* extractor's answer to the task's end, the load and the save of the      *)
(* graph included, there is no await.                                      *)
(***************************************************************************)
\* Background tasks per behaviour
MaxTasks == 2

Documents == {D1, D2}

InFlight == {t \in DOMAIN tasks : tasks[t].pc # "done"}

\* POST /analyze: background_tasks.add_task(process_document_analysis, ...)
StartAnalysis(document_id) ==
    /\ Len(tasks) < MaxTasks
    /\ \E d \in Documents : d.id = document_id
    /\ tasks' = Append(tasks, [pc |-> "get_document_info", document_id |-> document_id,
                               document_info |-> NoAttrs, stored |-> FALSE,
                               loaded |-> AbsentFile, graph |-> EmptyGraph,
                               beside |-> {}, analysis_data |-> <<>>])
    /\ UNCHANGED <<kg, pkl, store, now, last, before, first, analysis>>

\* document_info = await get_document_info(document_id)
GotDocumentInfo(t) ==
    /\ tasks[t].pc = "get_document_info"
    /\ \E d \in Documents :
          /\ d.id = tasks[t].document_id
          /\ tasks' = [tasks EXCEPT ![t].pc = "get_file_content",
                                    ![t].document_info = d]
    /\ UNCHANGED <<kg, pkl, store, now, last, before, first, analysis>>

\* content = await get_file_content(document_info)
GotFileContent(t) ==
    /\ tasks[t].pc = "get_file_content"
    /\ tasks' = [tasks EXCEPT ![t].pc = "process"]
    /\ UNCHANGED <<kg, pkl, store, now, last, before, first, analysis>>

\* res = await kg_extractor.process(...), and all that follows it in
\* analyze_document_placeholder
GotExtraction(t, kg_res, outcome) ==
    /\ tasks[t].pc = "process"
    /\ Analysis(tasks[t].document_info, kg_res, outcome)
    /\ tasks' = [tasks EXCEPT ![t].pc = "done",
                              ![t].stored = (kg_res.entries # <<>> /\ last'.raised = ""),
                              ![t].loaded = pkl,
                              ![t].graph = kg',
                              ![t].beside = InFlight \ {t}]
    /\ UNCHANGED analysis

\* GET /knowledge-graph, which reads no clock
ReadGraph(outcome) ==
    \E r \in {get_knowledge_graph(pkl, outcome)} :
        /\ pkl' = r.file
        /\ last' = [op |-> "get_knowledge_graph", file |-> pkl, outcome |-> outcome,
                    status |-> r.status, body |-> r.body]
        /\ UNCHANGED <<kg, before, store, first, tasks, analysis>>

GetKnowledgeGraph(outcome) ==
    /\ now < MaxOps
    /\ now' = now + 1
    /\ ReadGraph(outcome)

\* POST /training/answer
SaveTrainingAnswer(answer, outcome) ==
    LET r == save_training_answer(store, answer, now, outcome)
    IN  /\ now < MaxOps
        /\ now' = now + 1
        /\ store' = r.store
        /\ last' = [op |-> "save_training_answer", answers |-> <<answer>>,
                    outcome |-> outcome, status |-> r.status]
        /\ UNCHANGED <<kg, before, pkl, first, tasks, analysis>>

\* POST /training/session: the clock is read once per answer
SaveTrainingSession(answers, outcome) ==
    LET r == save_training_session(store, answers, now, outcome)
    IN  /\ now < MaxOps
        /\ now' = now + Len(answers)
        /\ store' = r.store
        /\ last' = [op |-> "save_training_session", answers |-> answers,
                    outcome |-> outcome, status |-> r.status]
        /\ UNCHANGED <<kg, before, pkl, first, tasks, analysis>>

\* add_entry and add_relationship on one instance
Next ==
    \/ \E c \in EntryCategories, q \in Questions, p \in Payloads :
          AddEntry(c, q, p[1], p[2])
    \/ \E u \in EntrySources, v \in EntryTargets, r \in Relations :
          u # v /\ AddRelationship(u, v, r)

Spec == Init /\ [][Next]_vars

\* The training entries of one instance
NextTraining ==
    \/ \E e \in TrainingRecords : AddTrainingEntry(e)
    \/ \E f \in TrainingFiles : SyncWithTrainingData(f)
    \/ \E u \in TrainingEnds, v \in TrainingEnds :
          u # v /\ AddRelationship(u, v, "related")

SpecTraining == Init /\ [][NextTraining]_vars

\* Every operation that makes or changes a graph, on small inputs
NextGraph ==
    \/ \E c \in {<<"Knowledge">>, <<"Nonsense">>} : AddEntry(c, QShort, "A1", NoAttrs)
    \/ \E u \in TrainingEnds, v \in TrainingEnds :
          u # v /\ AddRelationship(u, v, "related")
    \/ \E e \in {R1, R3, R5} : AddTrainingEntry(e)
    \/ \E S \in {<<>>, <<R3>>, <<R6, R3>>} : SyncWithTrainingData(ValidStore(S))
    \/ SyncWithTrainingData(AbsentStore)
    \/ \E o \in SaveOutcomes : Save(o)
    \/ Load
    \/ \E o \in SaveOutcomes : AnalyzeDocument(D1, Mixed, o)

SpecGraph == Init /\ [][NextGraph]_vars

\* The server's handlers, each run from its start to its end
NextServer ==
    \/ \E d \in {D1, D1Again}, r \in {Mixed, SamePrefix, ExtractionError},
          o \in SaveOutcomes : AnalyzeDocument(d, r, o)
    \/ \E o \in {"ok", "write_fails"} : GetKnowledgeGraph(o)
    \/ \E a \in {R1, R5}, o \in {"ok", "open_fails"} : SaveTrainingAnswer(a, o)
    \/ SaveTrainingSession(<<R3, R1>>, "ok")

SpecServer == Init /\ [][NextServer]_vars

\* Analyses in the background and reads of the graph, as the event loop
\* interleaves them.  A task whose await is over is resumed.
TaskSteps ==
    \E t \in DOMAIN tasks :
        \/ GotDocumentInfo(t)
        \/ GotFileContent(t)
        \/ GotExtraction(t, ExtractionError, "ok")
        \/ \E o \in {"ok", "write_fails"} : GotExtraction(t, Single, o)

NextConc ==
    \/ \E d \in Documents : StartAnalysis(d.id)
    \/ TaskSteps
    \/ ReadGraph("ok") /\ UNCHANGED now

SpecConc == Init /\ [][NextConc]_vars /\ WF_vars(TaskSteps)

(***************************************************************************)
(* The background analyses with their analysis records.                    *)
(* process_document_analysis loads the list of records once, after         *)
(* get_document_info, keeps it as analysis_data over the awaits of the     *)
(* analysis, and saves it whole twice: with the record of its document     *)
(* set to "processing" before the analysis, and with the final status      *)
(* after it.                                                               *)
(***************************************************************************)
\* From the answer of get_document_info to the next await: "Load analysis
\* data", "Create or update analysis record", "Save initial state"
SavedInitialState(t) ==
    /\ tasks[t].pc = "get_document_info"
    /\ \E d \in Documents :
          /\ d.id = tasks[t].document_id
          /\ tasks' = [tasks EXCEPT ![t].pc = "get_file_content",
                                    ![t].document_info = d,
                                    ![t].analysis_data = StartRecord(analysis, d.id)]
          /\ analysis' = StartRecord(analysis, d.id)
    /\ UNCHANGED <<kg, pkl, store, now, last, before, first>>

\* From the answer of the extractor to the end of the task: the adapter,
\* "Update record with results", "Save final state"
SavedFinalState(t, kg_res, outcome) ==
    /\ tasks[t].pc = "process"
    /\ Analysis(tasks[t].document_info, kg_res, outcome)
    /\ \E final \in {EndRecord(tasks[t].analysis_data, tasks[t].document_id,
                                "completed", {"knowledge_extraction"}, None)} :
          /\ analysis' = final
          /\ tasks' = [tasks EXCEPT ![t].pc = "done",
                                    ![t].stored = (kg_res.entries # <<>> /\ last'.raised = ""),
                                    ![t].loaded = pkl,
                                    ![t].graph = kg',
                                    ![t].beside = InFlight \ {t},
                                    ![t].analysis_data = final]

RecordSteps ==
    \E t \in DOMAIN tasks :
        \/ SavedInitialState(t)
        \/ GotFileContent(t)
        \/ SavedFinalState(t, ExtractionError, "ok")
        \/ \E o \in {"ok", "write_fails"} : SavedFinalState(t, Single, o)

NextResults ==
    \/ \E d \in Documents : StartAnalysis(d.id)
    \/ RecordSteps

SpecResults == Init /\ [][NextResults]_vars /\ WF_vars(RecordSteps)

\* add_entry calls on an instance that loads and saves, and analyses of
\* documents
NextEntries ==
    \/ \E c \in EntryCategories, q \in {QShort, QLong1}, p \in Payloads :
          AddEntry(c, q, p[1], p[2])
    \/ \E d \in {D1, D2}, r \in {Mixed, FallbackMeets, BadFirst} :
          AnalyzeDocument(d, r, "ok")
    \/ Save("ok")
    \/ Load

SpecEntries == Init /\ [][NextEntries]_vars

\* add_training_entry and sync_with_training_data alone on one instance
NextRecords ==
    \/ \E e \in TrainingRecords \cup {R7} : AddTrainingEntry(e)
    \/ \E f \in TrainingFiles \cup {ValidStore(<<R1, R6, R3>>)} : SyncWithTrainingData(f)

SpecRecords == Init /\ [][NextRecords]_vars

\* Graphs made through the class, saved, and read through the read API.
\* An extra attribute may bear any name, "id" too.
ExportPayloads == Payloads \cup {<<"A3", [id |-> <<"X">>]>>}

NextExport ==
    \/ \E q \in {QShort, QLong1}, p \in ExportPayloads :
          AddEntry(<<"Knowledge">>, q, p[1], p[2])
    \/ \E u \in EntrySources, v \in EntryTargets, r \in Relations :
          u # v /\ AddRelationship(u, v, r)
    \/ Save("ok")
    \/ AnalyzeDocument(D1, Single, "ok")
    \/ \E o \in {"ok", "write_fails"} : GetKnowledgeGraph(o)

SpecExport == Init /\ [][NextExport]_vars

\* What the LLM call can meet
Output(kind, items) == [kind |-> kind, items |-> items]

Item(c, q, a) == [kind |-> "entry", entry |-> Entry(c, q, a)]

Response(valid_input, api_key, call, output) ==
    [valid_input |-> valid_input, api_key |-> api_key, call |-> call, output |-> output]

GoodItems == <<Item(<<"Feelings">>, <<" ", "h", "i", "?", " ">>, "A1"), [kind |-> "missing"]>>

FailedResponses ==
    {Response(FALSE, TRUE, "ok", Output("array", GoodItems)),
     Response(TRUE, FALSE, "ok", Output("array", GoodItems)),
     Response(TRUE, TRUE, "raises", Output("array", GoodItems)),
     Response(TRUE, TRUE, "ok", Output("unparseable", <<>>)),
     Response(TRUE, TRUE, "ok", Output("scalar", <<>>)),
     Response(TRUE, TRUE, "ok", Output("array", <<>>)),
     Response(TRUE, TRUE, "ok", Output("array", <<[kind |-> "missing"]>>)),
     Response(TRUE, TRUE, "ok", Output("object", <<[kind |-> "missing"]>>)),
     Response(TRUE, TRUE, "ok", Output("array", GoodItems \o <<[kind |-> "nonstr"]>>)),
     Response(TRUE, TRUE, "ok", Output("array", <<[kind |-> "nondict"]>> \o GoodItems))}

GoodResponses ==
    {Response(TRUE, TRUE, "ok", Output("array", GoodItems)),
     Response(TRUE, TRUE, "ok", Output("object", <<Item(<<"Knowledge">>, QLong1, "A2")>>))}

TypeLists ==
    {<<"knowledge_extraction">>, <<"text_extraction", "knowledge_extraction", "metadata">>}

\* Whole background analyses, one after the other
NextAnalysis ==
    \/ \E ts \in TypeLists, r \in FailedResponses : ProcessDocumentAnalysis(D1, ts, r, "ok")
    \/ \E d \in {D1, D2}, r \in GoodResponses, o \in SaveOutcomes :
          ProcessDocumentAnalysis(d, <<"knowledge_extraction", "sentiment">>, r, o)
    \/ \E r \in GoodResponses :
          ProcessDocumentAnalysis(D1, <<"sentiment", "summary">>, r, "write_fails")

SpecAnalysis == Init /\ [][NextAnalysis]_vars

(***************************************************************************)
(* The adapter step by step.  It runs without an await, so no other        *)
(* handler runs between its steps, but the process can die, or an          *)
(* exception can leave the try block, after any of them.  A run is a       *)
(* record of tasks: [pc: "loop", "done" or "stopped", document_info,       *)
(* entries, i: the entries handled, loaded: knowledge_graph.pkl when the   *)
(* run loaded it, graph: the graph the run holds, raised].                 *)
(***************************************************************************)
\* A turn of the loop that saves the graph it has so far
EntryTurnSaving(file, G, doc_node_id, entry) ==
    LET r == AddDocumentEntry(G, doc_node_id, entry)
    IN  [graph |-> r.graph, raised |-> r.raised, file |-> ValidFile(Pickled(r.graph))]

\* A turn of "for i, entry in enumerate(kg_res['entries'])": it works on
\* kg.graph and leaves knowledge_graph.pkl alone.
EntryTurn(file, G, doc_node_id, entry) ==
    LET r == AddDocumentEntry(G, doc_node_id, entry)
    IN  [graph |-> r.graph, raised |-> r.raised, file |-> file]

Running == {t \in DOMAIN tasks : tasks[t].pc = "loop"}

\* kg = KnowledgeGraph(); kg.load(...); the Documents hub; the document node
BeginStore(document_info, kg_res) ==
    /\ now < MaxOps
    /\ Len(tasks) < MaxTasks
    /\ Running = {}
    /\ kg_res.entries # <<>>
    /\ now' = now + 1
    /\ tasks' = Append(tasks,
                       [pc |-> "loop", document_info |-> document_info,
                        entries |-> kg_res.entries, i |-> 0, loaded |-> pkl,
                        graph |-> EnsureDocumentNode(EnsureDocumentsHub(LoadOrNew(pkl)),
                                                     document_info, IsoFormat(now)),
                        raised |-> ""])
    /\ UNCHANGED <<kg, pkl, store, last, before, first, analysis>>

\* One entry of the batch
StoreEntry(t) ==
    /\ tasks[t].pc = "loop"
    /\ tasks[t].i < Len(tasks[t].entries)
    /\ \E r \in {EntryTurn(pkl, tasks[t].graph, DocNodeId(tasks[t].document_info),
                            tasks[t].entries[tasks[t].i + 1])} :
          /\ pkl' = r.file
          /\ tasks' = [tasks EXCEPT ![t].i = @ + 1,
                                    ![t].graph = r.graph,
                                    ![t].raised = r.raised,
                                    ![t].pc = IF r.raised = "" THEN "loop" ELSE "done"]
    /\ UNCHANGED <<kg, store, now, last, before, first, analysis>>

\* kg.save("knowledge_graph.pkl"), the last step
SaveGraph(t, outcome) ==
    /\ tasks[t].pc = "loop"
    /\ tasks[t].i = Len(tasks[t].entries)
    /\ \E r \in {save(tasks[t].graph, pkl, outcome)} :
          /\ pkl' = r.file
          /\ tasks' = [tasks EXCEPT ![t].pc = "done", ![t].raised = r.raised]
    /\ UNCHANGED <<kg, store, now, last, before, first, analysis>>

\* The process dies, or an exception leaves the try block, before the save
Stops(t) ==
    /\ tasks[t].pc = "loop"
    /\ tasks' = [tasks EXCEPT ![t].pc = "stopped"]
    /\ UNCHANGED <<kg, pkl, store, now, last, before, first, analysis>>

NextSteps ==
    \/ \E d \in {D1, D2}, r \in {Single, Mixed, BadFirst} : BeginStore(d, r)
    \/ \E t \in DOMAIN tasks : StoreEntry(t)
    \/ \E t \in DOMAIN tasks, o \in SaveOutcomes : SaveGraph(t, o)
    \/ \E t \in DOMAIN tasks : Stops(t)

SpecSteps == Init /\ [][NextSteps]_vars

(***************************************************************************)
(* What the claims speak of                                                *)
(***************************************************************************)
TypeOf(G, n) == Get(G.attr[n], "type", "")

\* The same node set, node attributes and edge set (with the edges' labels)
SameGraph(G, H) == Nodes(G) = Nodes(H) /\ G.attr = H.attr /\ G.eattr = H.eattr

InEdges(G, n) == {e \in Edges(G) : e[2] = n}

OutEdges(G, n) == {e \in Edges(G) : e[1] = n}

IsSync(l) == l.op = "sync_with_training_data" /\ l.file.state = "valid"

\* The records of snapshot S that a sync reaches: those before the first
\* one whose timestamp is no str under a mapped category.
Reached(S) ==
    {i \in DOMAIN S :
        \A j \in 1..i : MapGet(S[j].category) = None \/ IsStr(S[j].timestamp)}

\* The TrainingQANode ids a sync of S makes
IdsOf(S) ==
    {TrainingNodeId(S[i].question_id, S[i].timestamp) :
        i \in {j \in Reached(S) : MapGet(S[j].category) # None}}

(***************************************************************************)
(* C1.  add_entry with a category outside the seven fixed ones raises      *)
(* ValueError and leaves the graph's nodes, node attributes and edges as   *)
(* they were.                                                              *)
(***************************************************************************)
C1_InvalidCategoryRejected ==
    (last.op = "add_entry" /\ last.category \notin CategorySet)
        => (last.raised = "ValueError" /\ SameGraph(before, kg) /\ before = kg)

C1_Witness ==
    /\ last.op = "add_entry"
    /\ last.category \notin CategorySet
    /\ last.raised = "ValueError"
    /\ Cardinality(Nodes(kg)) > Cardinality(Nodes(KnowledgeGraphInit))

(***************************************************************************)
(* C3.  Whatever the graph and the snapshot, running                       *)
(* sync_with_training_data on the same snapshot twice in a row gives the   *)
(* node set, node attributes and edge set of running it once, and no       *)
(* training_qa node survives that the snapshot does not give.              *)
(***************************************************************************)
SecondSync == IsSync(last) /\ IsSync(last') /\ last'.file = last.file

SyncKeeps ==
    /\ SameGraph(kg, kg')
    /\ \A n \in Nodes(kg') :
          TypeOf(kg', n) = "training_qa" => n \in IdsOf(last'.file.records)

C3_SyncTwice == [][SecondSync => SyncKeeps]_vars

(***************************************************************************)
(* C4.  After a sync of S1, a sync of S2, a strict subset of S1's records, *)
(* leaves exactly the training_qa nodes of S2: the nodes of S1 alone are   *)
(* gone with every edge at them.  As stated, with one node per record of   *)
(* S2: C4_OneNodePerRecord.  It fails when S2 holds a record of an         *)
(* unmapped category (no node) or two records of one id (one node).  What  *)
(* holds is one node per id that S2's reached, mapped records give.        *)
(***************************************************************************)
SubsetSync ==
    /\ IsSync(last)
    /\ IsSync(last')
    /\ Range(last'.file.records) \subseteq Range(last.file.records)
    /\ Range(last'.file.records) # Range(last.file.records)

GoneWithEdges(G, H) ==
    \A n \in TrainingNodes(G) \ TrainingNodes(H) :
        n \notin Nodes(H) /\ \A e \in Edges(H) : e[1] # n /\ e[2] # n

C4_OneNodePerRecord ==
    [][SubsetSync =>
          /\ TrainingNodes(kg') = IdsOf(last'.file.records)
          /\ Cardinality(TrainingNodes(kg')) = Len(last'.file.records)
          /\ GoneWithEdges(kg, kg')]_vars

C4_SubsetSync ==
    [][SubsetSync =>
          /\ TrainingNodes(kg') = IdsOf(last'.file.records)
          /\ GoneWithEdges(kg, kg')]_vars

C4_Witness ==
    /\ IsSync(last)
    /\ TrainingNodes(kg) # {}
    /\ TrainingNodes(kg) \subseteq TrainingNodes(before)
    /\ TrainingNodes(kg) # TrainingNodes(before)
    /\ TrainingNodes(before) \cap IdsOf(last.file.records) # {}

(***************************************************************************)
(* C9.  Two add_entry calls in a row with the same valid category and      *)
(* questions that agree on their first 30 characters leave one QA node:    *)
(* the second call adds no node and no edge, and the node's question,      *)
(* answer and extra attributes are those of the second call.               *)
(***************************************************************************)
SamePrefixCalls ==
    /\ last.op = "add_entry"
    /\ last'.op = "add_entry"
    /\ last.category \in CategorySet
    /\ last'.category = last.category
    /\ Take(last'.question, PrefixLen) = Take(last.question, PrefixLen)

C9_SamePrefixOverwrites ==
    [][SamePrefixCalls =>
          /\ last'.raised = ""
          /\ last'.value = last.value
          /\ Cardinality(Nodes(kg')) = Cardinality(Nodes(kg))
          /\ Cardinality(Edges(kg')) = Cardinality(Edges(kg))
          /\ kg'.attr[last'.value].question = last'.question
          /\ kg'.attr[last'.value].answer = last'.answer
          /\ \A k \in DOMAIN last'.extra :
                kg'.attr[last'.value][k] = last'.extra[k]]_vars

\* A call without extra came upon the node an earlier call had made with
\* one, under a question that differs past the prefix.
C9_Witness ==
    /\ last.op = "add_entry"
    /\ last.raised = ""
    /\ last.question = QLong2
    /\ last.extra = NoAttrs
    /\ "source" \in DOMAIN kg.attr[last.value]
    /\ last.value \in Nodes(before)
    /\ before.attr[last.value].question = QLong1

(***************************************************************************)
(* C10.  In every graph reached from a new KnowledgeGraph by add_entry,    *)
(* add_relationship, add_training_entry, sync_with_training_data, document *)
(* ingestion, save and load, the 7 category nodes exist with type          *)
(* "category"; every operation but sync_with_training_data leaves every    *)
(* node and edge of the graph it started from in place, and                *)
(* sync_with_training_data takes away only nodes of type "training_qa"     *)
(* and the edges at them.  A load puts the saved graph in place of the     *)
(* instance's, so what it is held to is that the graph is the saved one.   *)
(***************************************************************************)
HasCategories(G) ==
    \A c \in CategorySet : HasNode(G, c) /\ TypeOf(G, c) = "category"

Keeps(G, H) == Nodes(G) \subseteq Nodes(H) /\ Edges(G) \subseteq Edges(H)

RemovesTrainingOnly(G, H) ==
    /\ \A n \in Nodes(G) \ Nodes(H) : TypeOf(G, n) = "training_qa"
    /\ \A e \in Edges(G) \ Edges(H) :
          TypeOf(G, e[1]) = "training_qa" \/ TypeOf(G, e[2]) = "training_qa"

C10_CategoriesStayOnlySyncRemoves ==
    /\ HasCategories(kg)
    /\ pkl.state = "valid" => HasCategories(pkl.graph)
    /\ last.op \notin {"init", "load", "sync_with_training_data"} => Keeps(before, kg)
    /\ last.op = "sync_with_training_data" => RemovesTrainingOnly(before, kg)
    /\ (last.op = "load" /\ last.raised = "") => kg = pkl.graph
    /\ (last.op = "load" /\ last.raised # "") => kg = before

\* A sync took a TrainingQANode away from a graph that also held a QA node
\* and a document's nodes, and left those.
C10_Witness ==
    /\ last.op = "sync_with_training_data"
    /\ Nodes(before) \ Nodes(kg) # {}
    /\ \E n \in Nodes(kg) : TypeOf(kg, n) = "qa"

(***************************************************************************)
(* C2.  After every successful save_training_answer and every successful   *)
(* save_training_session the persisted graph's training_qa nodes are       *)
(* exactly those the records now in the store give.                        *)
(***************************************************************************)
C2_SaveResyncs ==
    (last.op \in {"save_training_answer", "save_training_session"} /\ last.status = 200)
        => TrainingNodes(LoadOrNew(pkl)) = IdsOf(store.records)

(***************************************************************************)
(* C5.  After the adapter has processed a document the loaded graph did    *)
(* not hold, with n extracted entries, the persisted graph has node Doc_D  *)
(* with n outgoing "contains" edges, one to each entry's QA node; an entry *)
(* of a category outside the fixed set is a QA node under "Knowledge", and *)
(* the entries after it are processed.  As stated, with exactly n edges:   *)
(* C5_OneEdgePerEntry, which fails when two entries of the batch have one  *)
(* node id.  What holds, when the save writes the file, is one edge per    *)
(* node id the entries give.                                               *)
(***************************************************************************)
FirstAnalysis ==
    /\ last.op = "analyze_document"
    /\ last.kg_res.entries # <<>>
    /\ last.outcome = "ok"
    /\ ~HasNode(before, DocNodeId(last.document_info))

StoredCategory(entry) ==
    IF entry.category \in CategorySet THEN entry.category ELSE <<"Knowledge">>

StoredId(entry) == EntryNodeId(StoredCategory(entry), entry.question)

ContainsEdges(G, n) ==
    {e \in OutEdges(G, n) : Get(G.eattr[e], "relation", "") = "contains"}

EntriesStored ==
    LET doc == DocNodeId(last.document_info)
        entries == last.kg_res.entries
    IN  /\ pkl.state = "valid"
        /\ HasNode(pkl.graph, doc)
        /\ OutEdges(pkl.graph, doc) = {<<doc, StoredId(entries[i])>> : i \in DOMAIN entries}
        /\ ContainsEdges(pkl.graph, doc) = OutEdges(pkl.graph, doc)
        /\ \A i \in DOMAIN entries :
              /\ TypeOf(pkl.graph, StoredId(entries[i])) = "qa"
              /\ <<StoredCategory(entries[i]), StoredId(entries[i])>> \in Edges(pkl.graph)

C5_OneEdgePerEntry ==
    FirstAnalysis =>
        /\ EntriesStored
        /\ Cardinality(ContainsEdges(pkl.graph, DocNodeId(last.document_info)))
              = Len(last.kg_res.entries)

C5_OneEdgePerNodeId == FirstAnalysis => EntriesStored

\* Two valid entries and one of category "Nonsense" were stored.
C5_Witness ==
    /\ FirstAnalysis
    /\ last.kg_res = Mixed
    /\ Cardinality(ContainsEdges(pkl.graph, DocNodeId(last.document_info))) = 3
    /\ <<<<"Knowledge">>, EntryNodeId(<<"Knowledge">>, QShort)>> \in Edges(pkl.graph)

(***************************************************************************)
(* C6.  However often a document is analysed, the graph holds one          *)
(* document_instance node for it, with one incoming edge, from             *)
(* "Documents"; a re-analysis changes its analysis_timestamp and nothing   *)
(* else: filename, document_id, file_type, file_size, upload_date, type    *)
(* and color stay as they were when the node was made, whatever            *)
(* document_info the re-analysis was given.                                *)
(***************************************************************************)
DocumentNodes(G) == {n \in Nodes(G) : TypeOf(G, n) = "document_instance"}

Lasting(attrs) == [k \in DOMAIN attrs \ {"analysis_timestamp"} |-> attrs[k]]

C6_OneDocumentNode ==
    /\ pkl.state = "valid" =>
          \A n \in DocumentNodes(pkl.graph) :
              /\ n \in DOMAIN first
              /\ Lasting(pkl.graph.attr[n]) = Lasting(first[n])
              /\ DOMAIN pkl.graph.attr[n] = DOMAIN first[n]
              /\ InEdges(pkl.graph, n) = {<<<<"Documents">>, n>>}
              /\ \A m \in DocumentNodes(pkl.graph) :
                    pkl.graph.attr[m].document_id = pkl.graph.attr[n].document_id
                        => m = n
    /\ (last.op = "analyze_document" /\ last.kg_res.entries # <<>> /\ last.raised = "")
          => /\ pkl.state = "valid"
             /\ DocNodeId(last.document_info) \in DocumentNodes(pkl.graph)
             /\ pkl.graph.attr[DocNodeId(last.document_info)].analysis_timestamp
                   = last.timestamp

\* A re-analysis under other metadata left the first ones and set the time.
C6_Witness ==
    /\ last.op = "analyze_document"
    /\ last.document_info = D1Again
    /\ last.raised = ""
    /\ last.kg_res.entries # <<>>
    /\ pkl.state = "valid"
    /\ HasNode(before, DocNodeId(D1))
    /\ pkl.graph.attr[DocNodeId(D1)].filename = D1.filename
    /\ pkl.graph.attr[DocNodeId(D1)].analysis_timestamp
          # first[DocNodeId(D1)].analysis_timestamp

(***************************************************************************)
(* C8.  Whatever the state of the persisted file, GET /knowledge-graph     *)
(* answers with a {nodes, links} body that holds at least the 7 category   *)
(* nodes, and never with an error.                                         *)
(***************************************************************************)
BodyIds(body) == {body.nodes[i].id : i \in DOMAIN body.nodes}

C8_ReadNeverFails ==
    last.op = "get_knowledge_graph"
        => /\ last.status = 200
           /\ CategorySet \subseteq BodyIds(last.body)

(***************************************************************************)
(* C7.  When two graph-writing invocations run concurrently in the server, *)
(* some interleaving has both load the same persisted graph and the later  *)
(* save overwrite the earlier one, so that the persisted graph lacks what  *)
(* the first writer added.  As stated, of the runs in which two analyses   *)
(* ran side by side and both stored: C7_UpdateGetsLost.  No run loses an   *)
(* update: a writer goes from its load to its save without an await, so    *)
(* no two writers store what they loaded from one file, and the graph a    *)
(* save writes holds every node and edge the file held before it.          *)
(***************************************************************************)
Stored(t) == tasks[t].pc = "done" /\ tasks[t].stored

\* Two analyses have stored, one of them begun before the other ended.
SideBySide ==
    \E t \in DOMAIN tasks, u \in DOMAIN tasks :
        Stored(t) /\ Stored(u) /\ u \in tasks[t].beside

\* Two analyses have stored what they loaded from the same file, and the
\* file lacks a node or an edge of the graph one of them saved.
LostUpdate ==
    /\ pkl.state = "valid"
    /\ \E t \in DOMAIN tasks, u \in DOMAIN tasks :
          /\ t # u
          /\ Stored(t)
          /\ Stored(u)
          /\ tasks[t].loaded = tasks[u].loaded
          /\ ~Keeps(tasks[t].graph, pkl.graph)

Unlabelled(G, n) == {e \in InEdges(G, n) : "relation" \notin DOMAIN G.eattr[e]}

QaNodeEdges(G) ==
    \A n \in Nodes(G) :
        TypeOf(G, n) = "qa" =>
            /\ Unlabelled(G, n) = {<< <<n[1]>>, n >>}
            /\ <<n[1]>> \in CategorySet
            /\ TypeOf(G, <<n[1]>>) = "category"
            /\ \A e \in InEdges(G, n) \ Unlabelled(G, n) :
                  /\ G.eattr[e].relation = "contains"
                  /\ TypeOf(G, e[1]) = "document_instance"

C11_QaNodeEdges ==
    /\ QaNodeEdges(kg)
    /\ pkl.state = "valid" => QaNodeEdges(pkl.graph)

\* add_entry has met a QA node that two documents contain.
C11_Witness ==
    /\ last.op = "add_entry"
    /\ last.raised = ""
    /\ Cardinality(InEdges(kg, last.value)) = 3
    /\ Cardinality(Unlabelled(kg, last.value)) = 1

(***************************************************************************)
(* C12.  In every graph that add_training_entry and                        *)
(* sync_with_training_data reach, a node of type "training_qa" has exactly *)
(* one incoming edge, and it comes from the node "Training_" + the         *)
(* category the table gives for the node's training_category.              *)
(***************************************************************************)
C12_TrainingNodeEdges ==
    \A n \in Nodes(kg) :
        TypeOf(kg, n) = "training_qa" =>
            InEdges(kg, n) =
                {<<TrainingSubnode(MapGet(kg.attr[n].training_category)), n>>}

(***************************************************************************)
(* C13.  The constructor gives a graph of exactly the 7 category nodes,    *)
(* the "Training" hub, the "Documents" hub and one TrainingCategoryNode    *)
(* for each of the 7 entries of the mapping table, each with its own       *)
(* training_category and each with an edge from "Training".  As stated:    *)
(* C13_OneSubnodePerMapping.  The node of an entry is "Training_" + the    *)
(* category the entry maps to, and two entries map to Knowledge: there is  *)
(* one TrainingCategoryNode for each of the 6 categories the table maps    *)
(* to, carrying the training_category of the last entry that maps to it:   *)
(* C13_OneSubnodePerMappedCategory.                                        *)
(***************************************************************************)
TypedNodes(G, type) == {n \in Nodes(G) : TypeOf(G, n) = type}

Constructed == last.op = "init"

HubsAndCategories(G) ==
    /\ TypedNodes(G, "category") = CategorySet
    /\ Cardinality(CategorySet) = 7
    /\ \A c \in CategorySet : G.attr[c] = [type |-> "category"]
    /\ HasNode(G, <<"Training">>)
    /\ G.attr[<<"Training">>] = [type |-> "training_main"]
    /\ HasNode(G, <<"Documents">>)
    /\ G.attr[<<"Documents">>] = [type |-> "document_main"]
    /\ Nodes(G) = CategorySet \cup {<<"Training">>, <<"Documents">>}
                      \cup TypedNodes(G, "training_category")
    /\ Edges(G) = {<< <<"Training">>, n >> : n \in TypedNodes(G, "training_category")}
    /\ \A e \in Edges(G) : G.eattr[e] = NoAttrs

C13_OneSubnodePerMapping ==
    Constructed =>
        /\ HubsAndCategories(kg)
        /\ Cardinality(TypedNodes(kg, "training_category")) = Len(TRAINING_CATEGORY_MAP)
        /\ Len(TRAINING_CATEGORY_MAP) = 7
        /\ \A i \in DOMAIN TRAINING_CATEGORY_MAP :
              \E n \in TypedNodes(kg, "training_category") :
                  kg.attr[n].training_category = TRAINING_CATEGORY_MAP[i][1]

\* The categories the table maps to, and the last entry that maps to one
MappedCategories == {TRAINING_CATEGORY_MAP[i][2] : i \in DOMAIN TRAINING_CATEGORY_MAP}

LastMapping(c) ==
    CHOOSE i \in DOMAIN TRAINING_CATEGORY_MAP :
        /\ TRAINING_CATEGORY_MAP[i][2] = c
        /\ \A j \in DOMAIN TRAINING_CATEGORY_MAP :
              TRAINING_CATEGORY_MAP[j][2] = c => j <= i

C13_OneSubnodePerMappedCategory ==
    Constructed =>
        /\ HubsAndCategories(kg)
        /\ Len(TRAINING_CATEGORY_MAP) = 7
        /\ Cardinality(MappedCategories) = 6
        /\ TypedNodes(kg, "training_category") =
              {TrainingSubnode(c) : c \in MappedCategories}
        /\ Cardinality(Nodes(kg)) = 15
        /\ Cardinality(Edges(kg)) = 6
        /\ \A c \in MappedCategories :
              kg.attr[TrainingSubnode(c)] =
                  [type |-> "training_category",
                   training_category |-> TRAINING_CATEGORY_MAP[LastMapping(c)][1]]

\* The new graph, whose Training_Knowledge names the fourth entry of the
\* table and not the first.
C13_Witness ==
    /\ Constructed
    /\ kg.attr[TrainingSubnode(<<"Knowledge">>)].training_category =
          "Iteratively add to a knowledge graph"
    /\ kg.order[Len(kg.order)] = TrainingSubnode(<<"AutomaticQuestions">>)

(***************************************************************************)
(* C14.  Whatever the graph, add_training_entry with a training_category   *)
(* that is no key of the mapping table, the empty string included,         *)
(* returns without raising and leaves nodes, attributes and edges as they  *)
(* were.                                                                   *)
(***************************************************************************)
UnmappedCall ==
    last.op = "add_training_entry" /\ MapGet(last.entry.category) = None

C14_UnmappedCategoryIgnored ==
    UnmappedCall => (last.raised = "" /\ SameGraph(before, kg) /\ before = kg)

\* The empty category, on a graph that holds training answers
C14_Witness ==
    /\ UnmappedCall
    /\ last.entry.category = ""
    /\ last.raised = ""
    /\ TrainingNodes(kg) # {}

(***************************************************************************)
(* C15.  For every reachable graph G, a save that writes the file,         *)
(* followed by a load of it into any KnowledgeGraph instance, gives a      *)
(* graph of G's node ids, G's attributes on every node and G's edges with  *)
(* their relation labels; the save leaves the graph in memory as it was.   *)
(***************************************************************************)
SavedNow == last.op = "save" /\ last.raised = ""

\* Instances that load: a new one, the one that saved
Instances == {KnowledgeGraphInit, kg}

C15_SaveThenLoad ==
    SavedNow =>
        /\ kg = before
        /\ \A H \in Instances :
              /\ load(H, pkl).raised = ""
              /\ SameGraph(load(H, pkl).graph, kg)

\* A saved graph with a QA node, a labelled edge and an edge without label
C15_Witness ==
    /\ SavedNow
    /\ TypedNodes(kg, "qa") # {}
    /\ \E e \in Edges(kg) : "relation" \in DOMAIN kg.eattr[e]
    /\ \E e \in Edges(kg) : kg.eattr[e] = NoAttrs
    /\ kg # KnowledgeGraphInit

(***************************************************************************)
(* C16.  Whatever the graph, the body of the read API has in nodes one     *)
(* entry per node of the graph, tagged with the node's id and carrying all *)
(* its attributes, and in links one entry per edge with the edge's source, *)
(* target and attributes; the counts are the graph's and the order is the  *)
(* graph's: nodes as inserted, edges by source node as inserted and, of    *)
(* one source, as inserted.                                                *)
(***************************************************************************)
\* The read API answered 200: knowledge_graph.pkl then holds the graph read.
Exported == last.op = "get_knowledge_graph" /\ last.status = 200

IndexIn(seq, x) == CHOOSE i \in DOMAIN seq : seq[i] = x

\* Edge e comes before edge f in the graph's order.
EdgeBefore(G, e, f) ==
    \/ IndexIn(G.order, e[1]) < IndexIn(G.order, f[1])
    \/ e[1] = f[1] /\ IndexIn(G.adj[e[1]], e[2]) < IndexIn(G.adj[f[1]], f[2])

NodeEntries(G, B) ==
    /\ Len(B.nodes) = Cardinality(Nodes(G))
    /\ \A i \in DOMAIN B.nodes :
          /\ B.nodes[i].id = G.order[i]
          /\ \A k \in DOMAIN G.attr[G.order[i]] :
                k \in DOMAIN B.nodes[i] /\ B.nodes[i][k] = G.attr[G.order[i]][k]

LinkEntries(G, B) ==
    /\ Len(B.links) = Cardinality(Edges(G))
    /\ \A i \in DOMAIN B.links :
          LET e == <<B.links[i].source, B.links[i].target>>
          IN  /\ e \in Edges(G)
              /\ \A k \in DOMAIN G.eattr[e] :
                    k \in DOMAIN B.links[i] /\ B.links[i][k] = G.eattr[e][k]
              /\ \A j \in DOMAIN B.links :
                    i < j => EdgeBefore(G, e, <<B.links[j].source, B.links[j].target>>)

C16_FlattenOneEntryEach ==
    Exported => (NodeEntries(pkl.graph, last.body) /\ LinkEntries(pkl.graph, last.body))

(***************************************************************************)
(* C17.  In the adapter, a failure on one entry of the batch stays with    *)
(* that entry: every other entry of the batch is still added with its      *)
(* "contains" edge, and the graph is still saved at the end.  The entries  *)
(* are the extractor's, three strings each, so the failure of an entry is  *)
(* add_entry's ValueError on its category.                                 *)
(***************************************************************************)
FailingEntries(entries) == {i \in DOMAIN entries : entries[i].category \notin CategorySet}

BatchWithFailure ==
    /\ last.op = "analyze_document"
    /\ last.outcome = "ok"
    /\ FailingEntries(last.kg_res.entries) # {}

SyncWithoutSource ==
    last.op = "sync_with_training_data" /\ last.file.state # "valid"

C18_SyncWithoutSourceKeepsGraph ==
    SyncWithoutSource =>
        /\ last.raised = ""
        /\ SameGraph(before, kg)
        /\ before = kg
        /\ TrainingNodes(before) \subseteq TrainingNodes(kg)

\* A source that cannot be parsed, met by a graph that holds training answers
C18_Witness ==
    /\ SyncWithoutSource
    /\ last.file.state = "corrupt"
    /\ TrainingNodes(before) # {}
    /\ TrainingNodes(kg) = TrainingNodes(before)

(***************************************************************************)
(* C19.  When the knowledge extraction of a document analysis fails or     *)
(* gives malformed output (invalid input, no API key, an error of the LLM  *)
(* call, output that cannot be parsed or is no array, no valid entry), the *)
(* failure comes back as a result with an error field and no exception     *)
(* leaves: every other requested analysis type has its result, the         *)
(* analysis record ends "completed", and knowledge_graph.pkl is as it was. *)
(***************************************************************************)
\* The failures the claim names, told from the response alone
NoValidEntry(output) ==
    /\ output.kind \in {"object", "array"}
    /\ \A i \in DOMAIN output.items : output.items[i].kind # "entry"

Raises(output) ==
    /\ output.kind \in {"object", "array"}
    /\ \E i \in DOMAIN output.items : output.items[i].kind \in {"nonstr", "nondict"}

ExtractionFails(response) ==
    \/ ~response.valid_input
    \/ ~response.api_key
    \/ response.call = "raises"
    \/ response.output.kind \in {"unparseable", "scalar"}
    \/ NoValidEntry(response.output)
    \/ Raises(response.output)

FailedExtraction ==
    /\ last.op = "process_document_analysis"
    /\ "knowledge_extraction" \in Range(last.analysis_types)
    /\ ExtractionFails(last.response)

C19_ExtractionFailureIsAResult ==
    FailedExtraction =>
        /\ last.error_message = ""
        /\ last.status = "completed"
        /\ "knowledge_extraction" \in DOMAIN last.results
        /\ last.results["knowledge_extraction"].error # ""
        /\ \A t \in (Range(last.analysis_types) \cap AnalysisTypes) \ {"knowledge_extraction"} :
              t \in DOMAIN last.results /\ last.results[t] = Placeholder(t)
        /\ pkl = last.file

\* The LLM call failed in an analysis of three types, over a graph that an
\* earlier analysis had stored.
C19_Witness ==
    /\ FailedExtraction
    /\ last.response.call = "raises"
    /\ last.response.valid_input
    /\ last.response.api_key
    /\ Len(last.analysis_types) = 3
    /\ pkl.state = "valid"
    /\ DocumentNodes(pkl.graph) # {}

(***************************************************************************)
(* C20.  For every valid category c and every question q, add_entry        *)
(* returns c, ":" and the first 30 characters of q, all of q when it has   *)
(* fewer, whatever the answer, the extra attributes and the graph; after   *)
(* the call a node of that id exists.                                      *)
(***************************************************************************)
FirstThirty(q) == [i \in 1..(IF Len(q) < 30 THEN Len(q) ELSE 30) |-> q[i]]

ValidEntryCall == last.op = "add_entry" /\ last.category \in CategorySet

C20_EntryIdIsCategoryAndPrefix ==
    ValidEntryCall =>
        /\ last.raised = ""
        /\ last.value = last.category \o <<":">> \o FirstThirty(last.question)
        /\ HasNode(kg, last.value)
        /\ kg.attr[last.value].question = last.question

\* A question of 31 characters, with an extra attribute, on a graph that
\* held the node already
C20_Witness ==
    /\ ValidEntryCall
    /\ Len(last.question) = 31
    /\ Len(last.value) = 32
    /\ last.extra # NoAttrs
    /\ HasNode(before, last.value)
    /\ before.attr[last.value].question # last.question

(***************************************************************************)
(* C21.  When the save that ends the adapter's run fails, the analysis     *)
(* still gives the extracted entries in its results, its record ends       *)
(* "completed", and knowledge_graph.pkl is what it was before the run.     *)
(***************************************************************************)
FinalSaveFailed ==
    /\ last.op = "process_document_analysis"
    /\ last.kg_res.entries # <<>>
    /\ last.raised = "OSError"

C21_FailedSaveKeepsFile ==
    FinalSaveFailed =>
        /\ last.status = "completed"
        /\ last.error_message = ""
        /\ "knowledge_extraction" \in DOMAIN last.results
        /\ last.results["knowledge_extraction"].entries = last.kg_res.entries
        /\ pkl = last.file

(***************************************************************************)
(* C22.  A run of the adapter writes knowledge_graph.pkl in its last step, *)
(* the save, and nowhere else: while the run is in its loop, and when it   *)
(* has stopped before the save, the file is the file the run loaded,       *)
(* never one that holds a part of the batch.  And what the save writes is  *)
(* what the run done in one piece writes.                                  *)
(***************************************************************************)
LatestRun == tasks[Len(tasks)]

BeforeItsSave == Len(tasks) > 0 /\ LatestRun.pc \in {"loop", "stopped"}

C22_OnlyTheLastSaveWrites ==
    /\ BeforeItsSave => pkl = LatestRun.loaded
    /\ (Len(tasks) > 0 /\ LatestRun.pc = "done" /\ LatestRun.raised = "")
           => pkl = ValidFile(Pickled(LatestRun.graph))

\* A run stopped after some and not all of its entries, over a file
\* that an earlier run wrote
C22_Witness ==
    /\ Len(tasks) > 1
    /\ LatestRun.pc = "stopped"
    /\ LatestRun.i > 0
    /\ LatestRun.i < Len(LatestRun.entries)
    /\ LatestRun.loaded.state = "valid"
    /\ ~Keeps(LatestRun.graph, pkl.graph)

(***************************************************************************)
(* C23.  Starting from no graph file, in every graph that the adapter or   *)
(* the read API has written every node has a type, one of category,        *)
(* training_main, training_category, document_main, qa, training_qa and    *)
(* document_instance (no node is a bare end of an edge), and every         *)
(* "contains" edge runs from a document_instance node to a qa node.        *)
(***************************************************************************)
NodeTypes ==
    {"category", "training_main", "training_category", "document_main", "qa",
     "training_qa", "document_instance"}

ContainsAll(G) == {e \in Edges(G) : Get(G.eattr[e], "relation", "") = "contains"}

WellTyped(G) ==
    /\ \A n \in Nodes(G) : "type" \in DOMAIN G.attr[n] /\ G.attr[n].type \in NodeTypes
    /\ \A e \in ContainsAll(G) :
          TypeOf(G, e[1]) = "document_instance" /\ TypeOf(G, e[2]) = "qa"

C23_PersistedNodesTyped == pkl.state = "valid" => WellTyped(pkl.graph)

\* The read API wrote the file and an analysis stored a batch in it, one
\* entry by the fallback category
C23_Witness ==
    /\ pkl.state = "valid"
    /\ EntryNodeId(ExampleEntries[1].category, ExampleEntries[1].question)
           \in Nodes(pkl.graph)
    /\ last.op = "analyze_document"
    /\ last.kg_res = Mixed
    /\ last.raised = ""
    /\ Cardinality(ContainsAll(pkl.graph)) = 3
    /\ \E n \in Nodes(pkl.graph) : TypeOf(pkl.graph, n) = "document_instance"

(***************************************************************************)
(* C24.  After add_relationship(a, b, r) the graph has one edge a -> b,    *)
(* labelled r: on a pair that had an edge the label is overwritten and no  *)
(* edge is added; an end that was no node is made a node without           *)
(* attributes; every other node, node attribute and edge is as before.     *)
(***************************************************************************)
Times(seq, x) == Cardinality({i \in DOMAIN seq : seq[i] = x})

RelationshipCall == last.op = "add_relationship"

C24_RelationshipFrame ==
    RelationshipCall =>
        LET a == last.from_node
            b == last.to_node
            e == <<a, b>>
        IN  /\ last.raised = ""
            /\ e \in Edges(kg)
            /\ Times(kg.adj[a], b) = 1
            /\ kg.eattr[e].relation = last.relation
            /\ Edges(kg) = Edges(before) \cup {e}
            /\ \A n \in Nodes(kg) :
                  Cardinality({f \in Edges(kg) : f[1] = n}) = Len(kg.adj[n])
            /\ \A f \in Edges(before) \ {e} : kg.eattr[f] = before.eattr[f]
            /\ e \in Edges(before)
                  => DOMAIN kg.eattr[e] = DOMAIN before.eattr[e] \cup {"relation"}
            /\ Nodes(kg) = Nodes(before) \cup {a, b}
            /\ \A n \in Nodes(before) : kg.attr[n] = before.attr[n]
            /\ \A n \in {a, b} \ Nodes(before) : kg.attr[n] = NoAttrs
            /\ SubSeq(kg.order, 1, Len(before.order)) = before.order

\* The second call on a pair, with another label, an end of the pair
\* being a node the first call made
C24_Witness ==
    /\ RelationshipCall
    /\ <<last.from_node, last.to_node>> \in Edges(before)
    /\ "relation" \in DOMAIN before.eattr[<<last.from_node, last.to_node>>]
    /\ before.eattr[<<last.from_node, last.to_node>>].relation # last.relation
    /\ kg.attr[last.to_node] = NoAttrs
    /\ Cardinality(Edges(kg)) > Cardinality(Edges(KnowledgeGraphInit)) + 1

(***************************************************************************)
(* C25.  With analyses of two documents running side by side, no step of   *)
(* the analysis of one document takes the record of another document out   *)
(* of the persisted analysis results, and none sets such a record that     *)
(* was "completed" or "failed" to another status.                          *)
(***************************************************************************)
Terminal == {"completed", "failed"}

KeepsRecord(r, data) ==
    \E j \in DOMAIN data :
        /\ data[j].document_id = r.document_id
        /\ r.status \in Terminal => data[j].status = r.status

C25_RecordsOfOthersStay ==
    [][\A t \in DOMAIN tasks :
          tasks'[t] # tasks[t] =>
              \A i \in DOMAIN analysis :
                  analysis[i].document_id # tasks[t].document_id
                      => KeepsRecord(analysis[i], analysis')]_vars

(***************************************************************************)
(* C26.  Once every background analysis that was started has finished,     *)
(* the document of each has a persisted analysis record, and its status    *)
(* is "completed" or "failed", none is left "processing".                  *)
(***************************************************************************)
AllFinished == Len(tasks) > 0 /\ \A t \in DOMAIN tasks : tasks[t].pc = "done"

C26_NoRecordLeftProcessing ==
    AllFinished =>
        \A t \in DOMAIN tasks :
            \E i \in DOMAIN analysis :
                /\ analysis[i].document_id = tasks[t].document_id
                /\ analysis[i].status \in Terminal

(***************************************************************************)
(* C27.  A sync that meets a record it cannot process (its timestamp is    *)
(* no string) does not raise, and leaves the graph as it was before the    *)
(* call or synced to the whole snapshot, never without its old training    *)
(* nodes and with only the first records of the snapshot.                  *)
(***************************************************************************)
SyncMeetsBadRecord ==
    IsSync(last) /\ Reached(last.file.records) # DOMAIN last.file.records

\* The ids of the records of S that add_training_entry can make a node of
MakeableIds(S) ==
    {TrainingNodeId(S[i].question_id, S[i].timestamp) :
        i \in {j \in DOMAIN S : MapGet(S[j].category) # None /\ IsStr(S[j].timestamp)}}

C27_SyncAllOrNothing ==
    SyncMeetsBadRecord =>
        /\ last.raised = ""
        /\ \/ SameGraph(before, kg)
           \/ TrainingNodes(kg) = MakeableIds(last.file.records)

(***************************************************************************)
(* C28.  add_entry on an id that is a node already merges: an attribute    *)
(* the node had that the call does not supply keeps its value, and every   *)
(* edge into the node, "contains" edges among them, stays with its label.  *)
(***************************************************************************)
EntryOnExistingNode ==
    /\ last.op = "add_entry"
    /\ last.raised = ""
    /\ HasNode(before, last.value)

Supplied == {"question", "answer", "type"} \cup DOMAIN last.extra

C28_EntryMerges ==
    EntryOnExistingNode =>
        /\ \A k \in DOMAIN before.attr[last.value] \ Supplied :
              /\ k \in DOMAIN kg.attr[last.value]
              /\ kg.attr[last.value][k] = before.attr[last.value][k]
        /\ \A e \in InEdges(before, last.value) :
              e \in Edges(kg) /\ kg.eattr[e] = before.eattr[e]
        /\ kg.attr[last.value].answer = last.answer

\* A call without extra attributes, with another answer, on a node that has
\* an extra attribute and a "contains" edge into it
C28_Witness ==
    /\ EntryOnExistingNode
    /\ last.extra = NoAttrs
    /\ "source" \in DOMAIN before.attr[last.value]
    /\ before.attr[last.value].answer # last.answer
    /\ \E e \in InEdges(before, last.value) :
          Get(before.eattr[e], "relation", "") = "contains"

(***************************************************************************)
(* C29.  sync_with_training_data changes training_qa nodes and the edges   *)
(* at them, nothing else: the category nodes, the hubs, the training       *)
(* category nodes, the document nodes and the qa nodes are the same nodes  *)
(* with the same attributes, in the same order, after the call as before   *)
(* it, and so are the edges between them.                                  *)
(***************************************************************************)
LastingTypes ==
    {"category", "training_main", "document_main", "training_category",
     "document_instance", "qa"}

LastingNodes(G) == {n \in Nodes(G) : TypeOf(G, n) \in LastingTypes}

LastingEdges(G) ==
    {e \in Edges(G) : e[1] \in LastingNodes(G) /\ e[2] \in LastingNodes(G)}

LastingOrder(G) ==
    LET Lasts(n) == n \in LastingNodes(G)
    IN  Filter(G.order, Lasts)

LastingSuccessors(G, n) ==
    LET Lasts(v) == v \in LastingNodes(G)
    IN  Filter(G.adj[n], Lasts)

SyncCall == last.op = "sync_with_training_data"

C29_SyncTouchesTrainingOnly ==
    SyncCall =>
        /\ LastingNodes(kg) = LastingNodes(before)
        /\ LastingOrder(kg) = LastingOrder(before)
        /\ \A n \in LastingNodes(before) : kg.attr[n] = before.attr[n]
        /\ LastingEdges(kg) = LastingEdges(before)
        /\ \A e \in LastingEdges(before) : kg.eattr[e] = before.eattr[e]
        /\ \A n \in LastingNodes(before) :
              LastingSuccessors(kg, n) = LastingSuccessors(before, n)

\* A sync that took a training node away and made another, on a graph with
\* a document node, qa nodes and "contains" edges
C29_Witness ==
    /\ IsSync(last)
    /\ \E n \in Nodes(before) : TypeOf(before, n) = "document_instance"
    /\ \E e \in LastingEdges(before) : Get(before.eattr[e], "relation", "") = "contains"
    /\ TrainingNodes(before) # {}
    /\ TrainingNodes(kg) # {}
    /\ TrainingNodes(kg) \cap TrainingNodes(before) = {}

(***************************************************************************)
(* C30.  GET /knowledge-graph leaves a file that can be loaded as it is    *)
(* and answers with its graph.  When the load fails it writes a file: the  *)
(* new graph with the 7 example entries.  So a read that follows a read    *)
(* that answered gives the same body, and a persisted graph without the    *)
(* example entries, as one made by the analysis of a document, never gets  *)
(* them.                                                                   *)
(***************************************************************************)
ExampleIds ==
    {EntryNodeId(ExampleEntries[i].category, ExampleEntries[i].question) :
        i \in DOMAIN ExampleEntries}

HasExample(file) == file.state = "valid" /\ ExampleIds \cap Nodes(file.graph) # {}

Answered(l) == l.op = "get_knowledge_graph" /\ l.status = 200

C30_ReadWritesOnlyWithoutGraph ==
    [][/\ last'.op = "get_knowledge_graph" =>
             /\ pkl.state = "valid" =>
                   /\ pkl' = pkl
                   /\ last'.status = 200
                   /\ last'.body = Flatten(pkl.graph)
             /\ (pkl.state # "valid" /\ last'.status = 200) =>
                   /\ pkl' = ValidFile(Pickled(ExampleGraph))
                   /\ last'.body = Flatten(ExampleGraph)
                   /\ Cardinality(Nodes(ExampleGraph))
                          = Cardinality(Nodes(KnowledgeGraphInit)) + 7
             /\ Answered(last) =>
                   /\ pkl' = pkl
                   /\ last'.status = 200
                   /\ last'.body = last.body
       /\ (pkl.state = "valid" /\ ~HasExample(pkl)) => ~HasExample(pkl')]_vars

\* A read of a file that the analysis of a document made
C30_Witness ==
    /\ Answered(last)
    /\ last.file = pkl
    /\ pkl.state = "valid"
    /\ ~HasExample(pkl)
    /\ \E n \in Nodes(pkl.graph) : TypeOf(pkl.graph, n) = "document_instance"
    /\ last.body = Flatten(pkl.graph)
    /\ Len(last.body.nodes) > Cardinality(Nodes(KnowledgeGraphInit))

====
